---- MODULE Spec2Model ----
(***************************************************************************)
(* bucketbase: FSBucket, AppendOnlyFSBucket (per-key file locks) and        *)
(* CachedImmutableBucket, as a state machine of threads and processes that *)
(* share one cache directory, one locks directory and one main store.      *)
(***************************************************************************)
EXTENDS Integers, Sequences, FiniteSets, TLC

\* ---------------------------------------------------------------- bounds
\* public methods called in one behaviour, over all workers
MaxOps == 2
\* direct _lock_object / _unlock_object calls in one behaviour, over all workers
MaxLockOps == 4
\* chunks (reads of BUFFER_SIZE bytes) in one content
MaxLen == 2

\* ------------------------------------------------------------- universe
\* object names: two flat ones, and a small tree where "d" is both a name and the
\* directory of "d/x" and "d/e/y", and "dx" shares the text prefix "d"; "x" and
\* "e/y" are what is left of them without "d" or "d/"
Keys == {"k1", "k2", "d", "dx", "d/x", "d/e/y", "x", "e/y"}
\* str(name): the text of a name, character by character
Chars(k) ==
    CASE k = "k1" -> <<"k", "1">>
      [] k = "k2" -> <<"k", "2">>
      [] k = "d" -> <<"d">>
      [] k = "dx" -> <<"d", "x">>
      [] k = "d/x" -> <<"d", "/", "x">>
      [] k = "d/e/y" -> <<"d", "/", "e", "/", "y">>
      [] k = "x" -> <<"x">>
      [] k = "e/y" -> <<"e", "/", "y">>
      [] k = "d/" -> <<"d", "/">>
      [] k = "k*" -> <<"k", "*">>
SEP == "/"
\* two texts that are no object names: one ends with the separator, one has a
\* character outside S3_NAME_CHARS_NO_SEP
BadNames == {"d/", "k*"}
\* t1 and t2 are threads of process P1 (one AppendOnlyFSBucket instance),
\* p2 is the single thread of process P2 (its own instance, same directories)
Workers == {"t1", "t2", "p2"}
ProcOf(w) == IF w = "p2" THEN "P2" ELSE "P1"
Procs == {ProcOf(w) : w \in Workers}
\* inode numbers a lock-file path can name; 0 is "no inode"
Inodes == 1 .. (Cardinality(Workers) + 1)

ContentOf(c) == [i \in 1 .. MaxLen |-> 10 * c + i]
Contents == {ContentOf(1), ContentOf(2)}
\* the main store is immutable: a key has one content for ever, present or not
MainContent(k) == IF k = "k1" THEN ContentOf(1) ELSE ContentOf(2)

Absent == [present |-> FALSE, data |-> <<>>]
File(d) == [present |-> TRUE, data |-> d]
NoResult == [tag |-> "none", data |-> <<>>]
Bytes(d) == [tag |-> "bytes", data |-> d]
StreamHandle == [tag |-> "stream", data |-> <<>>]
NoStream == [content |-> <<>>, failAt |-> -1]
NoCtx == [fd |-> 0, counter |-> 0]
\* the content argument of put_object: bytes, a bytearray, or a str given by its
\* code points ("d", "e acute")
PutInputs == {[type |-> "bytes", val |-> <<>>],
              [type |-> "bytes", val |-> ContentOf(1)],
              [type |-> "bytearray", val |-> ContentOf(2)],
              [type |-> "str", val |-> <<100, 233>>]}

\* str.encode("utf-8") for code points below 2048
RECURSIVE EncodeUTF8(_)
EncodeUTF8(s) ==
    IF s = <<>> THEN <<>>
    ELSE (IF Head(s) < 128 THEN <<Head(s)>>
          ELSE <<192 + (Head(s) \div 64), 128 + (Head(s) % 64)>>) \o EncodeUTF8(Tail(s))

\* (variant) a str stored by its code points, without encoding
EncodeContent_Raw(i) == i.val

\* IBucket._encode_content, and the BytesIO of FSBucket.put_object
EncodeContent(i) == IF i.type \in {"bytes", "bytearray"} THEN i.val ELSE EncodeUTF8(i.val)

\* the lists of names a removal is asked for: one name, or two different ones
RemoveLists(ks) == {<<a>> : a \in ks} \cup {l \in {<<a, b>> : a \in ks, b \in ks} : l[1] # l[2]}

\* prefixes a listing is asked for: "", "d", "d/", "d/e", "d/e/", "dx", "x", and
\* "/", "d//", "d*", "d\n"
Prefixes == {<<>>, <<"d">>, <<"d", "/">>, <<"d", "/", "e">>, <<"d", "/", "e", "/">>,
             <<"d", "x">>, <<"x">>, <<"/">>, <<"d", "/", "/">>, <<"d", "*">>, <<"d", "\n">>}

VARIABLES
    darwin,     \* sys.platform.startswith("darwin")
    fs,         \* cache root: key -> file at <root>/<key>
    main,       \* main bucket: key -> object
    lockPath,   \* locks dir: key -> inode named by <locks>/<key>.lock, 0 = no file
    ctx,        \* worker -> key -> filelock thread-local context (lock_file_fd, lock_counter)
    tmpfd,      \* worker -> fd opened by _acquire and not yet flock-ed (0 = none)
    locks,      \* process -> AppendOnlyFSBucket._locks (keys with a handle)
    my_lock,    \* process -> owner of AppendOnlyFSBucket._my_lock ("none" = free)
    pc,         \* worker -> position in the code
    stack,      \* worker -> positions to continue at, innermost first
    op,         \* worker -> the public method it runs
    key,        \* worker -> the name argument
    stream,     \* worker -> the stream being copied (content, read that raises); for a
                \* listing or a removal, content is the prefix or the list of names;
                \* for copy_prefix, its arguments and the source as it was (history)
    pos,        \* worker -> chunks written so far by put_object_stream (file offset)
    exc,        \* worker -> exception in flight
    result,     \* worker -> value returned
    ops,        \* operations started so far
    active,     \* the threads that exist in this run
    names,      \* the object names their callers use
    dirs,       \* cache root: the directories below it, as relative posix paths
    before      \* worker -> the file as its running put_object_stream, or the last
                \* unlink of its remove_objects, found it (history)

fsVars == <<fs, main, dirs>>
lockVars == <<lockPath, ctx, tmpfd, locks, my_lock>>
ctlVars == <<pc, stack>>
argVars == <<op, key, stream, ops, active, names>>
outVars == <<pos, exc, result, before>>
vars == <<darwin, fs, main, lockPath, ctx, tmpfd, locks, my_lock,
          pc, stack, op, key, stream, pos, exc, result, ops, active, names, before, dirs>>

\* ------------------------------------------------------------- helpers
\* FSBucket.exists
Exists(k) == fs[k].present

\* FSBucket.get_size: os.stat(...).st_size, in chunks; -1 stands for FileNotFoundError
GetSize(k) == IF fs[k].present THEN Len(fs[k].data) ELSE -1

\* st_size of a directory: whatever the file system reports for it
DirSizes == {0, 4096}

\* ---- paths below the root, as texts; <<>> is the root itself
\* position of the last "/" in a text, 0 when there is none
LastSep(s) == IF \E i \in 1 .. Len(s) : s[i] = SEP
              THEN CHOOSE i \in 1 .. Len(s) : s[i] = SEP /\ \A j \in (i + 1) .. Len(s) : s[j] # SEP
              ELSE 0

\* Path.parent
ParentOf(p) == SubSeq(p, 1, LastSep(p) - 1)

\* Path.name
BaseName(p) == SubSeq(p, LastSep(p) + 1, Len(p))

\* the directories between the root and p, both excluded
RECURSIVE Ancestors(_)
Ancestors(p) == IF LastSep(p) = 0 THEN {} ELSE {ParentOf(p)} \cup Ancestors(ParentOf(p))

\* str.startswith
StartsWith(s, p) == Len(p) <= Len(s) /\ SubSeq(s, 1, Len(p)) = p

\* Path.is_file, Path.is_dir
FilePaths == {Chars(k) : k \in {n \in DOMAIN fs : fs[n].present}}
IsFile(p) == p \in FilePaths
IsDir(p) == p = <<>> \/ p \in dirs

\* the name whose file is at p
KeyOf(p) == CHOOSE k \in DOMAIN fs : Chars(k) = p

\* the entries of directory d
Children(d) == {e \in FilePaths \cup dirs : ParentOf(e) = d}

\* the error of a system call that has to walk through p's ancestors: one of
\* them is a regular file, or (when the call wants p to exist) nothing is there
UnderFile(p) == \E a \in Ancestors(p) : IsFile(a)

\* a collection in the order its iteration happens to give
RECURSIVE SetToSeq(_)
SetToSeq(S) == IF S = {} THEN <<>>
               ELSE LET x == CHOOSE x \in S : TRUE IN <<x>> \o SetToSeq(S \ {x})

Range(s) == {s[i] : i \in 1 .. Len(s)}

\* S3_NAME_CHARS_NO_SEP: the characters of the texts used here that the class
\* [\w!\-\.')(] matches ("*" and "\n" are not among them)
NameChars == {"k", "1", "2", "d", "x", "e", "y"}

\* the body of IBucket.SPLIT_PREFIX_RE covers all of s: segments of name
\* characters, each followed by "/", then a possibly empty run of name characters
FullMatch(s) ==
    /\ \A i \in 1 .. Len(s) : s[i] \in NameChars \cup {SEP}
    /\ s = <<>> \/ s[1] # SEP
    /\ \A i \in 1 .. (Len(s) - 1) : ~(s[i] = SEP /\ s[i + 1] = SEP)

\* the text that groups 1 and 2 of SPLIT_PREFIX_RE.match(s) cover: "$" matches at
\* the end of s and also just before a newline that ends s
Matched(s) ==
    IF s # <<>> /\ s[Len(s)] = "\n" THEN SubSeq(s, 1, Len(s) - 1) ELSE s

\* IBucket._split_prefix does not raise: s is "" or SPLIT_PREFIX_RE matches
ValidPrefix(s) == s = <<>> \/ FullMatch(Matched(s))

\* IBucket.OBJ_NAME_RE.match(name), the test of _validate_name: one or more
\* non-empty segments separated by "/"
ValidName(s) ==
    LET t == Matched(s)
    IN t # <<>> /\ FullMatch(t) /\ t[Len(t)] # SEP

\* (variant) the split made at the first "/"
SplitPrefix_AtFirst(s) ==
    LET t == Matched(s)
        f == IF LastSep(t) = 0 THEN 0 ELSE CHOOSE i \in 1 .. Len(t) : t[i] = SEP /\ \A j \in 1 .. (i - 1) : t[j] # SEP
    IN [dir |-> SubSeq(t, 1, f), name |-> SubSeq(t, f + 1, Len(t))]

\* IBucket._split_prefix: group 1 is the text up to and with the last "/",
\* group 2 the rest
SplitPrefix(s) ==
    LET t == Matched(s)
    IN [dir |-> SubSeq(t, 1, LastSep(t)), name |-> SubSeq(t, LastSep(t) + 1, Len(t))]

\* self._root / dir_path: a trailing "/" does not count
StartDir(s) == ParentOf(s)

\* (variant) everything below the directory of the prefix, without the text match
FSListing_DirOnly(P) ==
    LET start == StartDir(P)
        listing == IF IsDir(start)
                   THEN {e \in FilePaths \cup dirs : start = <<>> \/ StartsWith(e, start \o <<SEP>>)}
                   ELSE {}
    IN SetToSeq({KeyOf(e) : e \in {x \in listing : IsFile(x)}})

\* FSBucket.list_objects: rglob("*") below the directory of the prefix, kept when
\* the relative posix path starts with the prefix and is a regular file
FSListing(P) ==
    LET start == StartDir(P)
        listing == IF IsDir(start)
                   THEN {e \in FilePaths \cup dirs : start = <<>> \/ StartsWith(e, start \o <<SEP>>)}
                   ELSE {}
    IN SetToSeq({KeyOf(e) : e \in {x \in listing : StartsWith(x, P) /\ IsFile(x)}})

\* (variant) every entry that matches is reported as an object, none as a prefix
FSShallow_NoPrefixes(P) ==
    LET start == StartDir(P)
        listing == IF IsDir(start)
                   THEN {e \in Children(start) : StartsWith(BaseName(e), SplitPrefix(P).name)}
                   ELSE {}
    IN [tag |-> "shallow",
        data |-> SetToSeq({KeyOf(e) : e \in listing \cap FilePaths}),
        prefixes |-> <<>>]

\* FSBucket.shallow_list_objects: glob(name_prefix + "*") in the directory of the
\* prefix; regular files are objects, directories are prefixes ending in "/"
FSShallow(P) ==
    LET start == StartDir(P)
        listing == IF IsDir(start)
                   THEN {e \in Children(start) : StartsWith(BaseName(e), SplitPrefix(P).name)}
                   ELSE {}
    IN [tag |-> "shallow",
        data |-> SetToSeq({KeyOf(e) : e \in listing \cap FilePaths}),
        prefixes |-> SetToSeq({e \o <<SEP>> : e \in listing \cap dirs})]

\* AppendOnlyFSBucket.build(root) with locks_path None: the locks directory is
\* root / "__locks__", inside the tree that the base FSBucket lists
LocksDir == <<"_", "_", "l", "o", "c", "k", "s", "_", "_">>

\* lock_object_name = name.replace(self.SEP, "$")
LockObjectName(s) == [i \in 1 .. Len(s) |-> IF s[i] = SEP THEN "$" ELSE s[i]]

\* _lock_object: name.replace(SEP, "$"), and FileLockForPath adds ".lock"
LockChars(k) ==
    LocksDir \o <<SEP>> \o LockObjectName(Chars(k)) \o <<".", "l", "o", "c", "k">>

\* the relative posix path of the lock file of k, as a listing gives it
LockFileName(k) ==
    CASE k = "k1" -> "__locks__/k1.lock"
      [] k = "k2" -> "__locks__/k2.lock"
      [] k = "d" -> "__locks__/d.lock"
      [] k = "dx" -> "__locks__/dx.lock"
      [] k = "d/x" -> "__locks__/d$x.lock"
      [] k = "d/e/y" -> "__locks__/d$e$y.lock"
      [] k = "x" -> "__locks__/x.lock"
      [] k = "e/y" -> "__locks__/e$y.lock"

\* the regular files and the directories below the root of a bucket so built: the
\* objects' and the lock files' (FileLockForPath._acquire makes the directory)
LockFiles == {LockChars(k) : k \in {n \in Keys : lockPath[n] # 0}}
BuiltFiles == FilePaths \cup LockFiles
BuiltDirs == dirs \cup (IF LockFiles = {} THEN {} ELSE {LocksDir})

\* the name a listing gives the regular file at p
NameOf(p) == IF p \in FilePaths THEN KeyOf(p) ELSE LockFileName(CHOOSE k \in Keys : LockChars(k) = p)

\* FSBucket.list_objects on that root
BuiltListing(P) ==
    LET start == StartDir(P)
        listing == IF start = <<>> \/ start \in BuiltDirs
                   THEN {e \in BuiltFiles \cup BuiltDirs : start = <<>> \/ StartsWith(e, start \o <<SEP>>)}
                   ELSE {}
    IN SetToSeq({NameOf(e) : e \in {x \in listing : StartsWith(x, P) /\ x \in BuiltFiles}})

\* FSBucket.shallow_list_objects on that root
BuiltShallow(P) ==
    LET start == StartDir(P)
        listing == IF start = <<>> \/ start \in BuiltDirs
                   THEN {e \in BuiltFiles \cup BuiltDirs :
                           ParentOf(e) = start /\ StartsWith(BaseName(e), SplitPrefix(P).name)}
                   ELSE {}
    IN [tag |-> "shallow",
        data |-> SetToSeq({NameOf(e) : e \in listing \cap BuiltFiles}),
        prefixes |-> SetToSeq({e \o <<SEP>> : e \in listing \cap BuiltDirs})]

\* self._root / name: pathlib drops a separator at the end of the name
PathOf(k) ==
    LET s == Chars(k)
    IN IF s # <<>> /\ s[Len(s)] = SEP THEN SubSeq(s, 1, Len(s) - 1) ELSE s

\* os.stat(self._root / name).st_size: the values it can return (none: it raises)
StatSizes(k) ==
    IF IsFile(PathOf(k)) THEN {Len(fs[KeyOf(PathOf(k))].data)}
    ELSE IF IsDir(PathOf(k)) THEN DirSizes
    ELSE {}

\* the OSError of os.stat on a path that is neither a file nor a directory
StatError(k) == IF UnderFile(PathOf(k)) THEN "NotADirectoryError" ELSE "FileNotFoundError"

\* (variant) no directory is ever removed
RemoveEmptyDirs_Keep(d, D, F) == D

\* FSBucket._try_remove_empty_dirs from directory d upwards: rmdir until it
\* fails (not empty, or not there) or the root is reached; D and F are the
\* directories and the files that exist
RECURSIVE RemoveEmptyDirs(_, _, _)
RemoveEmptyDirs(d, D, F) ==
    IF d = <<>> THEN D
    ELSE IF d \in D /\ ~\E e \in D \cup F : ParentOf(e) = d
         THEN RemoveEmptyDirs(ParentOf(d), D \ {d}, F)
         ELSE D

\* MemoryBucket.list_objects: the keys of the dict whose text starts with the prefix
MemListing(P) == SetToSeq({k \in DOMAIN main : main[k].present /\ StartsWith(Chars(k), P)})

\* position of the first "/" in a text, 0 when there is none
FirstSep(s) == IF \E i \in 1 .. Len(s) : s[i] = SEP
               THEN CHOOSE i \in 1 .. Len(s) : s[i] = SEP /\ \A j \in 1 .. (i - 1) : s[j] # SEP
               ELSE 0

\* sobj[pref_len:]
Rest(k, P) == SubSeq(Chars(k), Len(P) + 1, Len(Chars(k)))

\* MemoryBucket.shallow_list_objects: a listed key without "/" after the prefix is
\* an object; otherwise prefix + suffix.split("/", 1)[0] + "/" goes to a set
MemShallow(P) ==
    LET listed == Range(MemListing(P))
    IN [tag |-> "shallow",
        data |-> SetToSeq({k \in listed : FirstSep(Rest(k, P)) = 0}),
        prefixes |-> SetToSeq({P \o SubSeq(Rest(k, P), 1, FirstSep(Rest(k, P)) - 1) \o <<SEP>> :
                                 k \in {n \in listed : FirstSep(Rest(n, P)) # 0}})]

\* open(p, "rb") of something that is not a regular file
OpenError(p) ==
    IF UnderFile(p) THEN "NotADirectoryError"
    ELSE IF IsDir(p) THEN "IsADirectoryError"
    ELSE "FileNotFoundError"

\* f.write(chunk) at the writer's own file offset p (0-based); a hole reads as 0
WriteAt(data, p, chunk) ==
    IF p < Len(data)
    THEN [data EXCEPT ![p + 1] = chunk]
    ELSE data \o [i \in 1 .. (p - Len(data)) |-> 0] \o <<chunk>>

\* fcntl.flock: the inode is locked through some open file description
FlockHeld(k, i) == \E w \in Workers : ctx[w][k].fd = i

\* an inode lives while the path names it or a descriptor is open on it
InodeLive(k, i) ==
    \/ lockPath[k] = i
    \/ \E w \in Workers : ctx[w][k].fd = i \/ (key[w] = k /\ tmpfd[w] = i)

\* os.open(..., O_CREAT) on a missing path makes a new inode
FreshInode(k) == CHOOSE i \in Inodes : ~InodeLive(k, i) /\ \A j \in Inodes : j < i => InodeLive(k, j)

\* continue at the innermost pending position; the call is over when none is left
Pop(w) ==
    /\ pc' = [pc EXCEPT ![w] = IF stack[w] = <<>> THEN "done" ELSE Head(stack[w])]
    /\ stack' = [stack EXCEPT ![w] = IF stack[w] = <<>> THEN <<>> ELSE Tail(stack[w])]

Goto(w, l) == pc' = [pc EXCEPT ![w] = l] /\ UNCHANGED stack

Call(w, l, conts) ==
    /\ pc' = [pc EXCEPT ![w] = l]
    /\ stack' = [stack EXCEPT ![w] = conts]

\* a public method is entered
Begin(w, o, k, s, l, conts) ==
    /\ w \in active
    /\ pc[w] = "idle"
    /\ ops' = ops + 1
    /\ op' = [op EXCEPT ![w] = o]
    /\ key' = [key EXCEPT ![w] = k]
    /\ stream' = [stream EXCEPT ![w] = s]
    /\ Call(w, l, conts)
    /\ UNCHANGED <<active, names>>

\* a public method raises at once
RaiseAtOnce(w, o, k, s, e) ==
    /\ ops < MaxOps
    /\ Begin(w, o, k, s, "done", <<>>)
    /\ exc' = [exc EXCEPT ![w] = e]
    /\ UNCHANGED <<darwin, fsVars, lockVars, pos, result, before>>

\* ------------------------------------------------------------ FSBucket
\* put_object_stream: mkdir, then open(path, "wb") creates or truncates the
\* destination itself; put_object wraps the content in a BytesIO and comes here
\* mkdir(parents=True, exist_ok=True) fails on an ancestor that is a regular
\* file, and open fails on a destination that is a directory
FSPutOpen(w) ==
    /\ pc[w] = "fs_put_open"
    /\ LET p == Chars(key[w])
       IN IF UnderFile(p)
          THEN /\ exc' = [exc EXCEPT ![w] = IF IsFile(ParentOf(p)) THEN "FileExistsError"
                                                                  ELSE "NotADirectoryError"]
               /\ Pop(w)
               /\ UNCHANGED <<fs, dirs, pos, before>>
          ELSE IF IsDir(p)
          THEN /\ exc' = [exc EXCEPT ![w] = "IsADirectoryError"]
               /\ Pop(w)
               /\ UNCHANGED <<fs, dirs, pos, before>>
          ELSE /\ dirs' = dirs \cup Ancestors(p)
               /\ fs' = [fs EXCEPT ![key[w]] = File(<<>>)]
               /\ pos' = [pos EXCEPT ![w] = 0]
               /\ before' = [before EXCEPT ![w] = fs[key[w]]]
               /\ Goto(w, "fs_put_copy")
               /\ UNCHANGED exc
    /\ UNCHANGED <<darwin, main, lockVars, argVars, result>>

\* chunk = stream.read(BUFFER_SIZE); f.write(chunk); a file that was unlinked
\* while open takes the bytes without getting its name back
FSPutChunk(w) ==
    /\ pc[w] = "fs_put_copy"
    /\ pos[w] < Len(stream[w].content)
    /\ stream[w].failAt # pos[w]
    /\ fs' = IF fs[key[w]].present
             THEN [fs EXCEPT ![key[w]] =
                     File(WriteAt(fs[key[w]].data, pos[w], stream[w].content[pos[w] + 1]))]
             ELSE fs
    /\ pos' = [pos EXCEPT ![w] = pos[w] + 1]
    /\ UNCHANGED <<darwin, main, dirs, lockVars, ctlVars, argVars, exc, result, before>>

\* (variant) the error leaves the caller's try block without its finally clause
FSPutFail_NoFinally(w) ==
    /\ pc[w] = "fs_put_copy"
    /\ stream[w].failAt = pos[w]
    /\ exc' = [exc EXCEPT ![w] = "IOError"]
    /\ pc' = [pc EXCEPT ![w] = "done"]
    /\ stack' = [stack EXCEPT ![w] = <<>>]
    /\ UNCHANGED <<darwin, fsVars, lockVars, argVars, pos, result, before>>

\* stream.read raises: the with-block closes the file, the error propagates
FSPutFail(w) ==
    /\ pc[w] = "fs_put_copy"
    /\ stream[w].failAt = pos[w]
    /\ exc' = [exc EXCEPT ![w] = "IOError"]
    /\ Pop(w)
    /\ UNCHANGED <<darwin, fsVars, lockVars, argVars, pos, result, before>>

\* stream.read returns b"": the loop breaks and the file is closed
FSPutEOF(w) ==
    /\ pc[w] = "fs_put_copy"
    /\ pos[w] = Len(stream[w].content)
    /\ stream[w].failAt # pos[w]
    /\ Pop(w)
    /\ UNCHANGED <<darwin, fsVars, lockVars, argVars, outVars>>

\* ---- put_object_stream with every system call a step of its own
\* p with its last n components dropped
RECURSIVE Up(_, _)
Up(p, n) == IF n = 0 THEN p ELSE Up(ParentOf(p), n - 1)

\* a stack without its leading labels l
RECURSIVE DropLabel(_, _)
DropLabel(s, l) == IF s # <<>> /\ Head(s) = l THEN DropLabel(Tail(s), l) ELSE s

\* the loop or the recursion marked by the labels l is left
Leave(w, l) ==
    LET s == DropLabel(stack[w], l)
    IN /\ pc' = [pc EXCEPT ![w] = IF s = <<>> THEN "done" ELSE Head(s)]
       /\ stack' = [stack EXCEPT ![w] = IF s = <<>> THEN <<>> ELSE Tail(s)]

\* Path.mkdir(parents=True): the calls of mkdir that wait for their parent
MkdirPending(w) == Cardinality({i \in DOMAIN stack[w] : stack[w][i] = "fs_put_mkdir"})

\* the directory the running mkdir is to make
MkdirTarget(w) == Up(ParentOf(Chars(key[w])), MkdirPending(w))

\* mkdir returns: to the mkdir that called it, or to put_object_stream
MkdirReturn(w) == IF MkdirPending(w) > 0 THEN Pop(w) ELSE Goto(w, "fs_put_create")

\* Path.mkdir(parents=True, exist_ok=True): os.mkdir(self); on FileNotFoundError
\* the parent is made first, then self.mkdir(parents=False) is tried again; an
\* existing directory is accepted
FSPutMkdir(w) ==
    /\ pc[w] = "fs_put_open"
    /\ LET t == MkdirTarget(w)
       IN IF IsDir(t)
          THEN MkdirReturn(w) /\ UNCHANGED <<dirs, exc>>
          ELSE IF IsFile(t) \/ UnderFile(t)
          THEN /\ exc' = [exc EXCEPT ![w] = IF IsFile(t) THEN "FileExistsError"
                                                         ELSE "NotADirectoryError"]
               /\ Leave(w, "fs_put_mkdir")
               /\ UNCHANGED dirs
          ELSE IF ~IsDir(ParentOf(t))
          THEN /\ stack' = [stack EXCEPT ![w] = <<"fs_put_mkdir">> \o stack[w]]
               /\ UNCHANGED <<pc, dirs, exc>>
          ELSE /\ dirs' = dirs \cup {t}
               /\ MkdirReturn(w)
               /\ UNCHANGED exc
    /\ UNCHANGED <<darwin, fs, main, lockVars, argVars, pos, result, before>>

\* self.mkdir(mode, parents=False, exist_ok=True) after the parent was made: a
\* parent that is gone again raises FileNotFoundError
FSPutMkdirChild(w) ==
    /\ pc[w] = "fs_put_mkdir"
    /\ LET t == MkdirTarget(w)
       IN IF IsDir(t)
          THEN MkdirReturn(w) /\ UNCHANGED <<dirs, exc>>
          ELSE IF IsFile(t) \/ UnderFile(t) \/ ~IsDir(ParentOf(t))
          THEN /\ exc' = [exc EXCEPT ![w] = IF IsFile(t) THEN "FileExistsError"
                                            ELSE IF UnderFile(t) THEN "NotADirectoryError"
                                            ELSE "FileNotFoundError"]
               /\ Leave(w, "fs_put_mkdir")
               /\ UNCHANGED dirs
          ELSE /\ dirs' = dirs \cup {t}
               /\ MkdirReturn(w)
               /\ UNCHANGED exc
    /\ UNCHANGED <<darwin, fs, main, lockVars, argVars, pos, result, before>>

\* _object_path.open("wb"): creates or truncates the file in a directory that
\* is there; the FileNotFoundError of a directory that is gone is raised again
FSPutCreate(w) ==
    /\ pc[w] = "fs_put_create"
    /\ LET p == Chars(key[w])
       IN IF UnderFile(p) \/ ~IsDir(ParentOf(p)) \/ IsDir(p)
          THEN /\ exc' = [exc EXCEPT ![w] = IF UnderFile(p) THEN "NotADirectoryError"
                                            ELSE IF ~IsDir(ParentOf(p)) THEN "FileNotFoundError"
                                            ELSE "IsADirectoryError"]
               /\ Pop(w)
               /\ UNCHANGED <<fs, pos, before>>
          ELSE /\ fs' = [fs EXCEPT ![key[w]] = File(<<>>)]
               /\ pos' = [pos EXCEPT ![w] = 0]
               /\ before' = [before EXCEPT ![w] = fs[key[w]]]
               /\ Goto(w, "fs_put_copy")
               /\ UNCHANGED exc
    /\ UNCHANGED <<darwin, main, dirs, lockVars, argVars, result>>

\* (variant) the read opens the path for update and so leaves an empty file
FSGetObject_CreatesMissing(w) ==
    /\ pc[w] = "fs_get"
    /\ IF fs[key[w]].present
       THEN result' = [result EXCEPT ![w] = Bytes(fs[key[w]].data)] /\ UNCHANGED <<exc, fs>>
       ELSE /\ exc' = [exc EXCEPT ![w] = OpenError(Chars(key[w]))]
            /\ fs' = [fs EXCEPT ![key[w]] = File(<<>>)]
            /\ UNCHANGED result
    /\ Pop(w)
    /\ UNCHANGED <<darwin, main, dirs, lockVars, argVars, pos, before>>

\* get_object: _path.read_bytes()
FSGetObject(w) ==
    /\ pc[w] = "fs_get"
    /\ IF fs[key[w]].present
       THEN result' = [result EXCEPT ![w] = Bytes(fs[key[w]].data)] /\ UNCHANGED exc
       ELSE exc' = [exc EXCEPT ![w] = OpenError(Chars(key[w]))] /\ UNCHANGED result
    /\ Pop(w)
    /\ UNCHANGED <<darwin, fsVars, lockVars, argVars, pos, before>>

\* get_object_stream: existence test, then a handle that opens the path on entry
FSGetObjectStream(w) ==
    /\ pc[w] = "fs_gets"
    /\ IF fs[key[w]].present
       THEN result' = [result EXCEPT ![w] = StreamHandle] /\ UNCHANGED exc
       ELSE exc' = [exc EXCEPT ![w] = "FileNotFoundError"] /\ UNCHANGED result
    /\ Pop(w)
    /\ UNCHANGED <<darwin, fsVars, lockVars, argVars, pos, before>>

\* the caller's "with stream as f: f.read()": FSObjectStream.__enter__ opens the
\* path and the file is read; skipped when the method raised instead of returning
StreamRead(w) ==
    /\ pc[w] = "stream_read"
    /\ IF exc[w] # "none"
       THEN UNCHANGED <<exc, result>>
       ELSE IF fs[key[w]].present
            THEN result' = [result EXCEPT ![w] = Bytes(fs[key[w]].data)] /\ UNCHANGED exc
            ELSE exc' = [exc EXCEPT ![w] = OpenError(Chars(key[w]))] /\ UNCHANGED result
    /\ Pop(w)
    /\ UNCHANGED <<darwin, fsVars, lockVars, argVars, pos, before>>

\* a caller's own put_object_stream on an FSBucket of the root
FSPutObjectStream(w) ==
    /\ ops < MaxOps
    /\ \E k \in names, c \in Contents :
         IF ValidName(Chars(k))
         THEN /\ Begin(w, "fs_put_object_stream", k, [content |-> c, failAt |-> -1], "fs_put_open", <<>>)
              /\ UNCHANGED exc
         ELSE /\ Begin(w, "fs_put_object_stream", k, [content |-> c, failAt |-> -1], "done", <<>>)
              /\ exc' = [exc EXCEPT ![w] = "ValueError"]
    /\ UNCHANGED <<darwin, fsVars, lockVars, pos, result, before>>

\* a caller's own list_objects(prefix): _split_prefix raises ValueError on a
\* text that SPLIT_PREFIX_RE does not match
FSListObjects(w) ==
    /\ ops < MaxOps
    /\ \E P \in Prefixes :
         /\ Begin(w, "fs_list_objects", "k1", [content |-> P, failAt |-> -1], "done", <<>>)
         /\ IF ValidPrefix(P)
            THEN result' = [result EXCEPT ![w] = [tag |-> "list", data |-> FSListing(P)]] /\ UNCHANGED exc
            ELSE exc' = [exc EXCEPT ![w] = "ValueError"] /\ UNCHANGED result
    /\ UNCHANGED <<darwin, fsVars, lockVars, pos, before>>

\* a caller's own shallow_list_objects(prefix)
FSShallowListObjects(w) ==
    /\ ops < MaxOps
    /\ \E P \in Prefixes :
         /\ Begin(w, "fs_shallow_list_objects", "k1", [content |-> P, failAt |-> -1], "done", <<>>)
         /\ IF ValidPrefix(P)
            THEN result' = [result EXCEPT ![w] = FSShallow(P)] /\ UNCHANGED exc
            ELSE exc' = [exc EXCEPT ![w] = "ValueError"] /\ UNCHANGED result
    /\ UNCHANGED <<darwin, fsVars, lockVars, pos, before>>

\* a caller's own put_object: the content goes into a BytesIO (a str encoded)
\* and on to put_object_stream, which starts with _validate_name
FSPutObject(w) ==
    /\ ops < MaxOps
    /\ \E k \in names, i \in PutInputs :
         IF ValidName(Chars(k))
         THEN /\ Begin(w, "fs_put_object", k, [content |-> EncodeContent(i), failAt |-> -1],
                       "fs_put_open", <<>>)
              /\ UNCHANGED exc
         ELSE /\ Begin(w, "fs_put_object", k, [content |-> EncodeContent(i), failAt |-> -1],
                       "done", <<>>)
              /\ exc' = [exc EXCEPT ![w] = "ValueError"]
    /\ UNCHANGED <<darwin, fsVars, lockVars, pos, result, before>>

\* a caller's own get_object
FSGetObjectCall(w) ==
    /\ ops < MaxOps
    /\ \E k \in names : Begin(w, "fs_get_object", k, NoStream, "fs_get", <<>>)
    /\ UNCHANGED <<darwin, fsVars, lockVars, outVars>>

\* a caller's own exists
FSExists(w) ==
    /\ ops < MaxOps
    /\ \E k \in names :
         /\ Begin(w, "fs_exists", k, NoStream, "done", <<>>)
         /\ result' = [result EXCEPT ![w] = [tag |-> "bool", data |-> <<Exists(k)>>]]
    /\ UNCHANGED <<darwin, fsVars, lockVars, pos, exc, before>>

\* a caller's own get_size: os.stat(self._root / name).st_size, the name as given
FSGetSize(w) ==
    /\ ops < MaxOps
    /\ \E k \in names :
         /\ Begin(w, "fs_get_size", k, NoStream, "done", <<>>)
         /\ IF StatSizes(k) # {}
            THEN /\ \E n \in StatSizes(k) : result' = [result EXCEPT ![w] = [tag |-> "int", data |-> <<n>>]]
                 /\ UNCHANGED exc
            ELSE exc' = [exc EXCEPT ![w] = StatError(k)] /\ UNCHANGED result
    /\ UNCHANGED <<darwin, fsVars, lockVars, pos, before>>

\* remove_objects(names): delete_errors = slist(), then the loop over the names
FSRemoveObjects(w) ==
    /\ ops < MaxOps
    /\ \E l \in RemoveLists(names) :
         Begin(w, "fs_remove_objects", l[1], [content |-> l, failAt |-> -1], "fs_rm", <<>>)
    /\ result' = [result EXCEPT ![w] = [tag |-> "errors", data |-> <<>>]]
    /\ pos' = [pos EXCEPT ![w] = 0]
    /\ UNCHANGED <<darwin, fsVars, lockVars, exc, before>>

\* (variant) the loop records nothing and unlinks nothing
FSRemoveOne_NoUnlink(w) ==
    /\ pc[w] = "fs_rm"
    /\ pos[w] < Len(stream[w].content)
    /\ pos' = [pos EXCEPT ![w] = pos[w] + 1]
    /\ UNCHANGED <<darwin, fsVars, lockVars, ctlVars, argVars, exc, result, before>>

\* one round of the loop: _validate_name raises ValueError on a text that is no
\* name, with the names before it already deleted;
\* unlink(missing_ok=True) passes over a missing file only; on a directory, or below a regular file, it raises, and the handler's
\* DeleteError(code=404, message=e, name=..., version_id=None) raises TypeError,
\* since DeleteError.__init__(code, message, name) takes no version_id: the
\* TypeError leaves remove_objects; otherwise the empty directories above are
\* removed
FSRemoveOne(w) ==
    /\ pc[w] = "fs_rm"
    /\ pos[w] < Len(stream[w].content)
    /\ LET obj == stream[w].content[pos[w] + 1]
           p == Chars(obj)
       IN IF ~ValidName(p) \/ UnderFile(p) \/ IsDir(p)
          THEN /\ exc' = [exc EXCEPT ![w] = IF ValidName(p) THEN "TypeError" ELSE "ValueError"]
               /\ pc' = [pc EXCEPT ![w] = "done"]
               /\ stack' = [stack EXCEPT ![w] = <<>>]
               /\ before' = [before EXCEPT ![w] = IF ValidName(p) THEN fs[obj] ELSE Absent]
               /\ UNCHANGED <<fs, dirs>>
          ELSE /\ fs' = [fs EXCEPT ![obj] = Absent]
               /\ dirs' = RemoveEmptyDirs(ParentOf(p), dirs, FilePaths \ {p})
               /\ before' = [before EXCEPT ![w] = fs[obj]]
               /\ UNCHANGED <<exc, ctlVars>>
    /\ pos' = [pos EXCEPT ![w] = pos[w] + 1]
    /\ UNCHANGED <<darwin, main, lockVars, argVars, result>>

\* return delete_errors
FSRemoveReturn(w) ==
    /\ pc[w] = "fs_rm"
    /\ pos[w] = Len(stream[w].content)
    /\ Pop(w)
    /\ UNCHANGED <<darwin, fsVars, lockVars, argVars, outVars>>

\* ---- remove_objects with every system call a step of its own
\* the rounds of _try_remove_empty_dirs still to run, the running one included
RmdirPending(w) == 1 + Cardinality({i \in DOMAIN stack[w] : stack[w][i] = "fs_rmdir"})

\* dir_to_remove: p.parent first, then one level up per round, never the root
DirToRemove(w) ==
    LET p == Chars(stream[w].content[pos[w]])
    IN Up(p, Cardinality(Ancestors(p)) - RmdirPending(w) + 1)

\* (variant) shutil.rmtree in place of rmdir: the directory goes with all below it
FSRmdir_Rmtree(w) ==
    /\ pc[w] = "fs_rmdir"
    /\ LET d == DirToRemove(w)
       IN /\ dirs' = {e \in dirs : ~StartsWith(e, d \o <<SEP>>) /\ e # d}
          /\ fs' = [k \in Keys |-> IF StartsWith(Chars(k), d \o <<SEP>>) THEN Absent ELSE fs[k]]
          /\ Pop(w)
    /\ UNCHANGED <<darwin, main, lockVars, argVars, outVars>>

\* one round of _try_remove_empty_dirs: dir_to_remove.rmdir() removes an empty
\* directory and the loop goes on with its parent; OSError (entries in it, or
\* no such directory) breaks the loop
FSRmdir(w) ==
    /\ pc[w] = "fs_rmdir"
    /\ LET d == DirToRemove(w)
       IN IF d \in dirs /\ Children(d) = {}
          THEN dirs' = dirs \ {d} /\ Pop(w)
          ELSE UNCHANGED dirs /\ Leave(w, "fs_rmdir")
    /\ UNCHANGED <<darwin, fs, main, lockVars, argVars, outVars>>

\* one round of the loop of remove_objects up to the call of
\* _try_remove_empty_dirs: _validate_name, then unlink(missing_ok=True)
FSUnlink(w) ==
    /\ pc[w] = "fs_rm"
    /\ pos[w] < Len(stream[w].content)
    /\ LET obj == stream[w].content[pos[w] + 1]
           p == Chars(obj)
           n == Cardinality(Ancestors(p))
       IN IF ~ValidName(p) \/ UnderFile(p) \/ IsDir(p)
          THEN /\ exc' = [exc EXCEPT ![w] = IF ValidName(p) THEN "TypeError" ELSE "ValueError"]
               /\ pc' = [pc EXCEPT ![w] = "done"]
               /\ stack' = [stack EXCEPT ![w] = <<>>]
               /\ before' = [before EXCEPT ![w] = IF ValidName(p) THEN fs[obj] ELSE Absent]
               /\ UNCHANGED fs
          ELSE /\ fs' = [fs EXCEPT ![obj] = Absent]
               /\ before' = [before EXCEPT ![w] = fs[obj]]
               /\ IF n = 0
                  THEN UNCHANGED ctlVars
                  ELSE Call(w, "fs_rmdir",
                            [i \in 1 .. n - 1 |-> "fs_rmdir"] \o <<"fs_rm">> \o stack[w])
               /\ UNCHANGED exc
    /\ pos' = [pos EXCEPT ![w] = pos[w] + 1]
    /\ UNCHANGED <<darwin, main, dirs, lockVars, argVars, result>>

\* ------------------------------------------------------------ MemoryBucket
\* put_object (put_object_stream reads the stream and calls it): the dict entry
\* is set under the lock
MemPut(w) ==
    /\ pc[w] = "mem_put"
    /\ main' = [main EXCEPT ![key[w]] = File(stream[w].content)]
    /\ Pop(w)
    /\ UNCHANGED <<darwin, fs, dirs, lockVars, argVars, outVars>>

\* get_object (get_object_stream wraps its value in a BytesIO)
MemGet(w) ==
    /\ pc[w] = "mem_get"
    /\ IF main[key[w]].present
       THEN result' = [result EXCEPT ![w] = Bytes(main[key[w]].data)] /\ UNCHANGED exc
       ELSE exc' = [exc EXCEPT ![w] = "FileNotFoundError"] /\ UNCHANGED result
    /\ Pop(w)
    /\ UNCHANGED <<darwin, fsVars, lockVars, argVars, pos, before>>

\* a caller's own put_object: _validate_name, _encode_content, the dict entry
MemPutObject(w) ==
    /\ ops < MaxOps
    /\ \E k \in names, i \in PutInputs :
         IF ValidName(Chars(k))
         THEN /\ Begin(w, "mem_put_object", k, [content |-> EncodeContent(i), failAt |-> -1],
                       "mem_put", <<>>)
              /\ UNCHANGED exc
         ELSE /\ Begin(w, "mem_put_object", k, [content |-> EncodeContent(i), failAt |-> -1],
                       "done", <<>>)
              /\ exc' = [exc EXCEPT ![w] = "ValueError"]
    /\ UNCHANGED <<darwin, fsVars, lockVars, pos, result, before>>

\* a caller's own get_object
MemGetObject(w) ==
    /\ ops < MaxOps
    /\ \E k \in names :
         IF ValidName(Chars(k))
         THEN Begin(w, "mem_get_object", k, NoStream, "mem_get", <<>>) /\ UNCHANGED exc
         ELSE /\ Begin(w, "mem_get_object", k, NoStream, "done", <<>>)
              /\ exc' = [exc EXCEPT ![w] = "ValueError"]
    /\ UNCHANGED <<darwin, fsVars, lockVars, pos, result, before>>

\* a caller's own exists: _name in self._objects
MemExists(w) ==
    /\ ops < MaxOps
    /\ \E k \in names :
         /\ Begin(w, "mem_exists", k, NoStream, "done", <<>>)
         /\ IF ValidName(Chars(k))
            THEN /\ result' = [result EXCEPT ![w] = [tag |-> "bool", data |-> <<main[k].present>>]]
                 /\ UNCHANGED exc
            ELSE exc' = [exc EXCEPT ![w] = "ValueError"] /\ UNCHANGED result
    /\ UNCHANGED <<darwin, fsVars, lockVars, pos, before>>

MemListObjects(w) ==
    /\ ops < MaxOps
    /\ \E P \in Prefixes :
         /\ Begin(w, "mem_list_objects", "k1", [content |-> P, failAt |-> -1], "done", <<>>)
         /\ IF ValidPrefix(P)
            THEN result' = [result EXCEPT ![w] = [tag |-> "list", data |-> MemListing(P)]] /\ UNCHANGED exc
            ELSE exc' = [exc EXCEPT ![w] = "ValueError"] /\ UNCHANGED result
    /\ UNCHANGED <<darwin, fsVars, lockVars, pos, before>>

MemShallowListObjects(w) ==
    /\ ops < MaxOps
    /\ \E P \in Prefixes :
         /\ Begin(w, "mem_shallow_list_objects", "k1", [content |-> P, failAt |-> -1], "done", <<>>)
         /\ IF ValidPrefix(P)
            THEN result' = [result EXCEPT ![w] = MemShallow(P)] /\ UNCHANGED exc
            ELSE exc' = [exc EXCEPT ![w] = "ValueError"] /\ UNCHANGED result
    /\ UNCHANGED <<darwin, fsVars, lockVars, pos, before>>

\* get_size: FileNotFoundError for a name that is no key, else len of the object
MemGetSize(w) ==
    /\ ops < MaxOps
    /\ \E k \in names :
         /\ Begin(w, "mem_get_size", k, NoStream, "done", <<>>)
         /\ IF main[k].present
            THEN result' = [result EXCEPT ![w] = [tag |-> "int", data |-> <<Len(main[k].data)>>]] /\ UNCHANGED exc
            ELSE exc' = [exc EXCEPT ![w] = "FileNotFoundError"] /\ UNCHANGED result
    /\ UNCHANGED <<darwin, fsVars, lockVars, pos, before>>

\* remove_objects: under the lock every listed name that is a key is popped, up
\* to the first text that _validate_name refuses; the error list stays empty
MemRemoveObjects(w) ==
    /\ ops < MaxOps
    /\ \E l \in RemoveLists(names) :
         LET bad == {i \in 1 .. Len(l) : ~ValidName(Chars(l[i]))}
             n == IF bad = {} THEN Len(l) ELSE (CHOOSE i \in bad : \A j \in bad : i <= j) - 1
         IN /\ Begin(w, "mem_remove_objects", l[1], [content |-> l, failAt |-> -1], "done", <<>>)
            /\ main' = [k \in DOMAIN main |->
                           IF k \in Range(SubSeq(l, 1, n)) THEN Absent ELSE main[k]]
            /\ exc' = [exc EXCEPT ![w] = IF bad = {} THEN "none" ELSE "ValueError"]
    /\ result' = [result EXCEPT ![w] = [tag |-> "errors", data |-> <<>>]]
    /\ UNCHANGED <<darwin, fs, dirs, lockVars, pos, before>>

\* -------------------------------------- AppendOnlyFSBucket, FileLockForPath
\* _lock_object up to the poll loop of acquire(): the handle is looked up or
\* inserted under _my_lock; acquire() counts the call and returns at once when
\* this thread's context already holds the lock
LockObject(w) ==
    /\ pc[w] = "lock_object"
    /\ my_lock[ProcOf(w)] = "none"
    /\ locks' = [locks EXCEPT ![ProcOf(w)] = @ \cup {key[w]}]
    /\ ctx' = [ctx EXCEPT ![w][key[w]].counter = @ + 1]
    /\ IF ctx[w][key[w]].fd # 0 THEN Pop(w) ELSE Goto(w, "acquire_open")
    /\ UNCHANGED <<darwin, fsVars, lockPath, tmpfd, my_lock, argVars, outVars>>

\* _acquire: mkdir of the locks directory, os.open of the lock file (O_CREAT)
AcquireOpen(w) ==
    /\ pc[w] = "acquire_open"
    /\ LET i == IF lockPath[key[w]] # 0 THEN lockPath[key[w]] ELSE FreshInode(key[w])
       IN /\ lockPath' = [lockPath EXCEPT ![key[w]] = i]
          /\ tmpfd' = [tmpfd EXCEPT ![w] = i]
    /\ Goto(w, "acquire_flock")
    /\ UNCHANGED <<darwin, fsVars, ctx, locks, my_lock, argVars, outVars>>

\* fcntl.flock(fd, LOCK_EX | LOCK_NB) succeeds: the context keeps the descriptor
AcquireFlockOk(w) ==
    /\ pc[w] = "acquire_flock"
    /\ ~FlockHeld(key[w], tmpfd[w])
    /\ ctx' = [ctx EXCEPT ![w][key[w]].fd = tmpfd[w]]
    /\ tmpfd' = [tmpfd EXCEPT ![w] = 0]
    /\ Pop(w)
    /\ UNCHANGED <<darwin, fsVars, lockPath, locks, my_lock, argVars, outVars>>

\* (variant) flock fails and acquire() never polls again
AcquireFlockBusy_NoRetry(w) ==
    /\ pc[w] = "acquire_flock"
    /\ FlockHeld(key[w], tmpfd[w])
    /\ tmpfd' = [tmpfd EXCEPT ![w] = 0]
    /\ Goto(w, "acquire_gave_up")
    /\ UNCHANGED <<darwin, fsVars, lockPath, ctx, locks, my_lock, argVars, outVars>>

\* flock fails: the descriptor is closed and acquire() polls again
AcquireFlockBusy(w) ==
    /\ pc[w] = "acquire_flock"
    /\ FlockHeld(key[w], tmpfd[w])
    /\ tmpfd' = [tmpfd EXCEPT ![w] = 0]
    /\ Goto(w, "acquire_open")
    /\ UNCHANGED <<darwin, fsVars, lockPath, ctx, locks, my_lock, argVars, outVars>>

\* (variant) a key without a handle gets one instead of the RuntimeError
UnlockEnter_NoCheck(w) ==
    /\ pc[w] = "unlock_enter"
    /\ my_lock[ProcOf(w)] = "none"
    /\ locks' = [locks EXCEPT ![ProcOf(w)] = @ \cup {key[w]}]
    /\ my_lock' = [my_lock EXCEPT ![ProcOf(w)] = w]
    /\ Goto(w, "release")
    /\ before' = [before EXCEPT ![w] = Absent]
    /\ UNCHANGED <<darwin, fsVars, lockPath, ctx, tmpfd, argVars, pos, exc, result>>

\* _unlock_object: _my_lock is taken; a key without a handle raises RuntimeError
UnlockEnter(w) ==
    /\ pc[w] = "unlock_enter"
    /\ my_lock[ProcOf(w)] = "none"
    /\ IF key[w] \in locks[ProcOf(w)]
       THEN /\ my_lock' = [my_lock EXCEPT ![ProcOf(w)] = w]
            /\ Goto(w, "release")
            /\ UNCHANGED exc
       ELSE /\ exc' = [exc EXCEPT ![w] = "RuntimeError"]
            /\ Pop(w)
            /\ UNCHANGED my_lock
    /\ before' = [before EXCEPT ![w] = Absent]
    /\ UNCHANGED <<darwin, fsVars, lockPath, ctx, tmpfd, locks, argVars, pos, result>>

\* release(): the counter goes down; at zero FileLockForPath._release runs, which
\* on darwin first removes the lock file (errors ignored)
ReleaseRemove(w) ==
    /\ pc[w] = "release"
    /\ IF ctx[w][key[w]].fd = 0
       THEN Goto(w, "unlock_exit") /\ UNCHANGED <<ctx, lockPath>>
       ELSE /\ ctx' = [ctx EXCEPT ![w][key[w]].counter = @ - 1]
            /\ IF ctx[w][key[w]].counter = 1
               THEN /\ Goto(w, "release_unlock")
                    /\ lockPath' = [lockPath EXCEPT ![key[w]] = IF darwin THEN 0 ELSE @]
               ELSE Goto(w, "unlock_exit") /\ UNCHANGED lockPath
    /\ UNCHANGED <<darwin, fsVars, tmpfd, locks, my_lock, argVars, outVars>>

\* filelock's _release: the descriptor leaves the context, flock(LOCK_UN), close
ReleaseUnlock(w) ==
    /\ pc[w] = "release_unlock"
    /\ ctx' = [ctx EXCEPT ![w][key[w]] = NoCtx]
    /\ Goto(w, "unlock_exit")
    /\ UNCHANGED <<darwin, fsVars, lockPath, tmpfd, locks, my_lock, argVars, outVars>>

\* (variant) _unlock_object returns without releasing _my_lock
UnlockExit_KeepMutex(w) ==
    /\ pc[w] = "unlock_exit"
    /\ Pop(w)
    /\ UNCHANGED <<darwin, fsVars, lockVars, argVars, outVars>>

\* the with-block of _unlock_object ends: _my_lock is released
UnlockExit(w) ==
    /\ pc[w] = "unlock_exit"
    /\ my_lock' = [my_lock EXCEPT ![ProcOf(w)] = "none"]
    /\ Pop(w)
    /\ UNCHANGED <<darwin, fsVars, lockPath, ctx, tmpfd, locks, argVars, outVars>>

\* a caller's own bucket._lock_object(name) / bucket._unlock_object(name)
LockCall(w) ==
    /\ ops < MaxLockOps
    /\ \E k \in names : Begin(w, "_lock_object", k, NoStream, "lock_object", <<>>)
    /\ UNCHANGED <<darwin, fsVars, lockVars, outVars>>

UnlockCall(w) ==
    /\ ops < MaxLockOps
    /\ \E k \in names : Begin(w, "_unlock_object", k, NoStream, "unlock_enter", <<>>)
    /\ UNCHANGED <<darwin, fsVars, lockVars, outVars>>

\* ---------------------------- AbstractAppendOnlySynchronizedBucket (ibucket.py)
PutConts == <<"fs_put_open", "unlock_enter">>

\* put_object: _lock_object, which starts with _validate_name; base.put_object
\* (a BytesIO never raises); finally _unlock_object
AOPutObject(w) ==
    /\ ops < MaxOps
    /\ \E k \in names, c \in Contents :
         IF ValidName(Chars(k))
         THEN /\ Begin(w, "ao_put_object", k, [content |-> c, failAt |-> -1], "lock_object", PutConts)
              /\ UNCHANGED exc
         ELSE /\ Begin(w, "ao_put_object", k, [content |-> c, failAt |-> -1], "done", <<>>)
              /\ exc' = [exc EXCEPT ![w] = "ValueError"]
    /\ UNCHANGED <<darwin, fsVars, lockVars, pos, result, before>>

\* put_object_stream: the same around base.put_object_stream; the caller's stream
\* may raise on any of its reads
AOPutObjectStream(w) ==
    /\ ops < MaxOps
    /\ \E k \in names, c \in Contents, f \in -1 .. (MaxLen - 1) :
         Begin(w, "ao_put_object_stream", k, [content |-> c, failAt |-> f], "lock_object", PutConts)
    /\ UNCHANGED <<darwin, fsVars, lockVars, outVars>>

\* get_object starts with self.exists(name), which starts with _validate_name
AOGetObject(w) ==
    /\ ops < MaxOps
    /\ \E k \in names :
         IF ValidName(Chars(k))
         THEN Begin(w, "ao_get_object", k, NoStream, "ao_get_exists", <<>>) /\ UNCHANGED exc
         ELSE /\ Begin(w, "ao_get_object", k, NoStream, "done", <<>>)
              /\ exc' = [exc EXCEPT ![w] = "ValueError"]
    /\ UNCHANGED <<darwin, fsVars, lockVars, pos, result, before>>

AOGetObjectStream(w) ==
    /\ ops < MaxOps
    /\ \E k \in names :
         Begin(w, "ao_get_object_stream", k, NoStream, "ao_gets_exists", <<"stream_read">>)
    /\ UNCHANGED <<darwin, fsVars, lockVars, outVars>>

\* get_object: if self.exists(name) the base is read without the lock; otherwise
\* _lock_object, base.get_object, finally _unlock_object
AOGetExists(w) ==
    /\ pc[w] = "ao_get_exists"
    /\ IF Exists(key[w])
       THEN Goto(w, "fs_get")
       ELSE Call(w, "lock_object", <<"fs_get", "unlock_enter">> \o stack[w])
    /\ UNCHANGED <<darwin, fsVars, lockVars, argVars, outVars>>

\* get_object_stream: the same two paths around base.get_object_stream
AOGetStreamExists(w) ==
    /\ pc[w] = "ao_gets_exists"
    /\ IF Exists(key[w])
       THEN Goto(w, "fs_gets")
       ELSE Call(w, "lock_object", <<"fs_gets", "unlock_enter">> \o stack[w])
    /\ UNCHANGED <<darwin, fsVars, lockVars, argVars, outVars>>

\* get_size and exists are the base bucket's, without the lock
AOGetSize(w) ==
    /\ ops < MaxOps
    /\ \E k \in names :
         /\ Begin(w, "ao_get_size", k, NoStream, "done", <<>>)
         /\ IF StatSizes(k) # {}
            THEN /\ \E n \in StatSizes(k) : result' = [result EXCEPT ![w] = [tag |-> "int", data |-> <<n>>]]
                 /\ UNCHANGED exc
            ELSE exc' = [exc EXCEPT ![w] = StatError(k)] /\ UNCHANGED result
    /\ UNCHANGED <<darwin, fsVars, lockVars, pos, before>>

AOExists(w) ==
    /\ ops < MaxOps
    /\ \E k \in names :
         /\ Begin(w, "ao_exists", k, NoStream, "done", <<>>)
         /\ result' = [result EXCEPT ![w] = [tag |-> "bool", data |-> <<Exists(k)>>]]
    /\ UNCHANGED <<darwin, fsVars, lockVars, pos, exc, before>>

\* list_objects and shallow_list_objects are the base bucket's, on the root that
\* AppendOnlyFSBucket.build gave it
AOListObjects(w) ==
    /\ ops < MaxOps
    /\ \E P \in Prefixes :
         /\ Begin(w, "ao_list_objects", "k1", [content |-> P, failAt |-> -1], "done", <<>>)
         /\ IF ValidPrefix(P)
            THEN result' = [result EXCEPT ![w] = [tag |-> "list", data |-> BuiltListing(P)]] /\ UNCHANGED exc
            ELSE exc' = [exc EXCEPT ![w] = "ValueError"] /\ UNCHANGED result
    /\ UNCHANGED <<darwin, fsVars, lockVars, pos, before>>

AOShallowListObjects(w) ==
    /\ ops < MaxOps
    /\ \E P \in Prefixes :
         /\ Begin(w, "ao_shallow_list_objects", "k1", [content |-> P, failAt |-> -1], "done", <<>>)
         /\ IF ValidPrefix(P)
            THEN result' = [result EXCEPT ![w] = BuiltShallow(P)] /\ UNCHANGED exc
            ELSE exc' = [exc EXCEPT ![w] = "ValueError"] /\ UNCHANGED result
    /\ UNCHANGED <<darwin, fsVars, lockVars, pos, before>>

\* (variant) remove_objects handed on to the base bucket, as the listings are
AORemoveObjects_Delegated(w) ==
    /\ ops < MaxOps
    /\ \E k \in names :
         /\ Begin(w, "ao_remove_objects", k, NoStream, "done", <<>>)
         /\ fs' = [fs EXCEPT ![k] = Absent]
    /\ UNCHANGED <<darwin, main, dirs, lockVars, outVars>>

\* remove_objects raises io.UnsupportedOperation
AORemoveObjects(w) ==
    \E k \in names : RaiseAtOnce(w, "ao_remove_objects", k, NoStream, "UnsupportedOperation")

\* ------------------------------------------------------ CachedImmutableBucket
CIBGetObject(w) ==
    /\ ops < MaxOps
    /\ \E k \in names : Begin(w, "cib_get_object", k, NoStream, "ao_get_exists", <<"cib_get_miss">>)
    /\ UNCHANGED <<darwin, fsVars, lockVars, outVars>>

CIBGetObjectStream(w) ==
    /\ ops < MaxOps
    /\ \E k \in names :
         Begin(w, "cib_get_object_stream", k, NoStream, "ao_gets_exists",
               <<"cib_gets_miss", "stream_read">>)
    /\ UNCHANGED <<darwin, fsVars, lockVars, outVars>>

\* (variant) a miss answered from main without cache.put_object
CIBGetObjectMiss_NoPopulate(w) ==
    /\ pc[w] = "cib_get_miss"
    /\ IF exc[w] = "FileNotFoundError" /\ main[key[w]].present
       THEN /\ exc' = [exc EXCEPT ![w] = "none"]
            /\ result' = [result EXCEPT ![w] = Bytes(main[key[w]].data)]
       ELSE UNCHANGED <<exc, result>>
    /\ Pop(w)
    /\ UNCHANGED <<darwin, fsVars, lockVars, argVars, pos, before>>

\* get_object after self._cache.get_object: its value is returned; on
\* FileNotFoundError main.get_object runs (and may raise it), then cache.put_object
CIBGetObjectMiss(w) ==
    /\ pc[w] = "cib_get_miss"
    /\ IF exc[w] # "FileNotFoundError"
       THEN Pop(w) /\ UNCHANGED <<exc, stream>>
       ELSE IF ~main[key[w]].present
            THEN Pop(w) /\ UNCHANGED <<exc, stream>>
            ELSE /\ exc' = [exc EXCEPT ![w] = "none"]
                 /\ stream' = [stream EXCEPT ![w] = [content |-> main[key[w]].data, failAt |-> -1]]
                 /\ Call(w, "lock_object", PutConts \o <<"cib_get_return">> \o stack[w])
    /\ UNCHANGED <<darwin, fsVars, lockVars, op, key, ops, active, names, pos, result, before>>

\* return _content
CIBGetObjectReturn(w) ==
    /\ pc[w] = "cib_get_return"
    /\ result' = [result EXCEPT ![w] = IF exc[w] = "none" THEN Bytes(stream[w].content) ELSE @]
    /\ Pop(w)
    /\ UNCHANGED <<darwin, fsVars, lockVars, argVars, pos, exc, before>>

\* get_object_stream after self._cache.get_object_stream: on FileNotFoundError
\* main's stream is copied into the cache with cache.put_object_stream
CIBGetStreamMiss(w) ==
    /\ pc[w] = "cib_gets_miss"
    /\ IF exc[w] # "FileNotFoundError"
       THEN Pop(w) /\ UNCHANGED <<exc, stream>>
       ELSE IF ~main[key[w]].present
            THEN Pop(w) /\ UNCHANGED <<exc, stream>>
            ELSE /\ exc' = [exc EXCEPT ![w] = "none"]
                 /\ stream' = [stream EXCEPT ![w] = [content |-> main[key[w]].data, failAt |-> -1]]
                 /\ Call(w, "lock_object", PutConts \o <<"cib_gets_reget">> \o stack[w])
    /\ UNCHANGED <<darwin, fsVars, lockVars, op, key, ops, active, names, pos, result, before>>

\* return self._cache.get_object_stream(name)
CIBGetStreamReget(w) ==
    /\ pc[w] = "cib_gets_reget"
    /\ IF exc[w] = "none" THEN Goto(w, "ao_gets_exists") ELSE Pop(w)
    /\ UNCHANGED <<darwin, fsVars, lockVars, argVars, outVars>>

\* (variant) the listing taken from the cache
CIBListObjects_FromCache(w) ==
    /\ ops < MaxOps
    /\ \E P \in Prefixes :
         /\ Begin(w, "cib_list_objects", "k1", [content |-> P, failAt |-> -1], "done", <<>>)
         /\ IF ValidPrefix(P)
            THEN result' = [result EXCEPT ![w] = [tag |-> "list", data |-> FSListing(P)]] /\ UNCHANGED exc
            ELSE exc' = [exc EXCEPT ![w] = "ValueError"] /\ UNCHANGED result
    /\ UNCHANGED <<darwin, fsVars, lockVars, pos, before>>

\* list_objects and shallow_list_objects are main's
CIBListObjects(w) ==
    /\ ops < MaxOps
    /\ \E P \in Prefixes :
         /\ Begin(w, "cib_list_objects", "k1", [content |-> P, failAt |-> -1], "done", <<>>)
         /\ IF ValidPrefix(P)
            THEN result' = [result EXCEPT ![w] = [tag |-> "list", data |-> MemListing(P)]] /\ UNCHANGED exc
            ELSE exc' = [exc EXCEPT ![w] = "ValueError"] /\ UNCHANGED result
    /\ UNCHANGED <<darwin, fsVars, lockVars, pos, before>>

CIBShallowListObjects(w) ==
    /\ ops < MaxOps
    /\ \E P \in Prefixes :
         /\ Begin(w, "cib_shallow_list_objects", "k1", [content |-> P, failAt |-> -1], "done", <<>>)
         /\ IF ValidPrefix(P)
            THEN result' = [result EXCEPT ![w] = MemShallow(P)] /\ UNCHANGED exc
            ELSE exc' = [exc EXCEPT ![w] = "ValueError"] /\ UNCHANGED result
    /\ UNCHANGED <<darwin, fsVars, lockVars, pos, before>>

\* (variant) the cache alone is asked
CIBExists_CacheOnly(w) ==
    /\ ops < MaxOps
    /\ \E k \in names :
         /\ Begin(w, "cib_exists", k, NoStream, "done", <<>>)
         /\ result' = [result EXCEPT ![w] = [tag |-> "bool", data |-> <<Exists(k)>>]]
    /\ UNCHANGED <<darwin, fsVars, lockVars, pos, exc, before>>

\* exists: self._cache.exists(name) (the base FSBucket's), and only when that is
\* false self._main.exists(name)
CIBExists(w) ==
    /\ ops < MaxOps
    /\ \E k \in names :
         IF Exists(k)
         THEN /\ Begin(w, "cib_exists", k, NoStream, "done", <<>>)
              /\ result' = [result EXCEPT ![w] = [tag |-> "bool", data |-> <<TRUE>>]]
         ELSE /\ Begin(w, "cib_exists", k, NoStream, "cib_exists_main", <<>>)
              /\ UNCHANGED result
    /\ UNCHANGED <<darwin, fsVars, lockVars, pos, exc, before>>

\* self._main.exists(name)
CIBExistsMain(w) ==
    /\ pc[w] = "cib_exists_main"
    /\ result' = [result EXCEPT ![w] = [tag |-> "bool", data |-> <<main[key[w]].present>>]]
    /\ Pop(w)
    /\ UNCHANGED <<darwin, fsVars, lockVars, argVars, pos, exc, before>>

\* get_size: self._cache.get_size(name) is the base FSBucket's os.stat; its
\* FileNotFoundError alone leads to self._main.get_size(name)
CIBGetSize(w) ==
    /\ ops < MaxOps
    /\ \E k \in names :
         IF StatSizes(k) # {}
         THEN /\ Begin(w, "cib_get_size", k, NoStream, "done", <<>>)
              /\ \E n \in StatSizes(k) : result' = [result EXCEPT ![w] = [tag |-> "int", data |-> <<n>>]]
              /\ UNCHANGED exc
         ELSE IF StatError(k) = "FileNotFoundError"
              THEN /\ Begin(w, "cib_get_size", k, NoStream, "cib_get_size_main", <<>>)
                   /\ UNCHANGED <<result, exc>>
              ELSE /\ Begin(w, "cib_get_size", k, NoStream, "done", <<>>)
                   /\ exc' = [exc EXCEPT ![w] = StatError(k)]
                   /\ UNCHANGED result
    /\ UNCHANGED <<darwin, fsVars, lockVars, pos, before>>

\* (variant) the object found in main is also written to the cache
CIBGetSizeMain_Populate(w) ==
    /\ pc[w] = "cib_get_size_main"
    /\ IF main[key[w]].present
       THEN /\ result' = [result EXCEPT ![w] = [tag |-> "int", data |-> <<Len(main[key[w]].data)>>]]
            /\ fs' = [fs EXCEPT ![key[w]] = main[key[w]]]
            /\ UNCHANGED exc
       ELSE exc' = [exc EXCEPT ![w] = "FileNotFoundError"] /\ UNCHANGED <<result, fs>>
    /\ Pop(w)
    /\ UNCHANGED <<darwin, main, dirs, lockVars, argVars, pos, before>>

\* self._main.get_size(name): the length of the object, or FileNotFoundError
CIBGetSizeMain(w) ==
    /\ pc[w] = "cib_get_size_main"
    /\ IF main[key[w]].present
       THEN /\ result' = [result EXCEPT ![w] = [tag |-> "int", data |-> <<Len(main[key[w]].data)>>]]
            /\ UNCHANGED exc
       ELSE exc' = [exc EXCEPT ![w] = "FileNotFoundError"] /\ UNCHANGED result
    /\ Pop(w)
    /\ UNCHANGED <<darwin, fsVars, lockVars, argVars, pos, before>>

\* (variant) put_object handed on to the main bucket
CIBPutObject_ToMain(w) ==
    /\ ops < MaxOps
    /\ \E k \in names, c \in Contents :
         /\ Begin(w, "cib_put_object", k, [content |-> c, failAt |-> -1], "done", <<>>)
         /\ main' = [main EXCEPT ![k] = File(c)]
    /\ UNCHANGED <<darwin, fs, dirs, lockVars, outVars>>

\* put_object, put_object_stream, remove_objects raise io.UnsupportedOperation
CIBPutObject(w) ==
    \E k \in names, c \in Contents :
        RaiseAtOnce(w, "cib_put_object", k, [content |-> c, failAt |-> -1], "UnsupportedOperation")

CIBPutObjectStream(w) ==
    \E k \in names, c \in Contents :
        RaiseAtOnce(w, "cib_put_object_stream", k, [content |-> c, failAt |-> -1], "UnsupportedOperation")

CIBRemoveObjects(w) ==
    \E k \in names : RaiseAtOnce(w, "cib_remove_objects", k, NoStream, "UnsupportedOperation")

\* ---------------------------------------------------------------- IBucket
\* IBucket._split_prefix(prefix) called on its own (test_split_prefix)
SplitPrefixCall(w) ==
    /\ ops < MaxOps
    /\ \E P \in Prefixes :
         /\ Begin(w, "_split_prefix", "k1", [content |-> P, failAt |-> -1], "done", <<>>)
         /\ IF ValidPrefix(P)
            THEN /\ result' = [result EXCEPT ![w] =
                        [tag |-> "split", data |-> <<SplitPrefix(P).dir, SplitPrefix(P).name>>]]
                 /\ UNCHANGED exc
            ELSE exc' = [exc EXCEPT ![w] = "ValueError"] /\ UNCHANGED result
    /\ UNCHANGED <<darwin, fsVars, lockVars, pos, before>>

\* _copy_object: name = dst_prefix + obj[src_pref_len:], without one leading "/"
Translate(k, sp, dp) ==
    LET n == dp \o SubSeq(Chars(k), Len(sp) + 1, Len(Chars(k)))
    IN IF n # <<>> /\ n[1] = SEP THEN Tail(n) ELSE n

\* the key that a text names
KeyFor(s) == CHOOSE k \in Keys : Chars(k) = s

\* (src_prefix, dst_prefix) of the calls made: ("", ""), ("d", ""), ("d/", ""),
\* ("d", "d"), ("dx", "k1"), ("/", "")
CopyPairs == {<<(<<>>), <<>>>>, <<(<<"d">>), <<>>>>, <<(<<"d", "/">>), <<>>>>,
              <<(<<"d">>), <<"d">>>>, <<(<<"d", "x">>), <<"k", "1">>>>, <<(<<"/">>), <<>>>>}

\* the values of threads
Threads == {1, 2}

\* copy_prefix and move_prefix of an FSBucket into a MemoryBucket, up to the
\* fastmap: src_objects = self.list_objects(src_prefix), which validates
CopyArgs(sp, dp, n) ==
    [content |-> IF ValidPrefix(sp) THEN FSListing(sp) ELSE <<>>,
     failAt |-> -1, src |-> sp, dst |-> dp, threads |-> n, found |-> fs]

CopyPrefix(w) ==
    /\ ops < MaxOps
    /\ \E pr \in CopyPairs, n \in Threads :
         IF ValidPrefix(pr[1])
         THEN /\ Begin(w, "copy_prefix", "k1", CopyArgs(pr[1], pr[2], n), "copy_objects", <<>>)
              /\ UNCHANGED exc
         ELSE /\ Begin(w, "copy_prefix", "k1", CopyArgs(pr[1], pr[2], n), "done", <<>>)
              /\ exc' = [exc EXCEPT ![w] = "ValueError"]
    /\ UNCHANGED <<darwin, fsVars, lockVars, pos, result, before>>

\* move_prefix: copy_prefix, then remove_prefix(src_prefix)
MovePrefix(w) ==
    /\ ops < MaxOps
    /\ \E pr \in CopyPairs, n \in Threads :
         IF ValidPrefix(pr[1])
         THEN /\ Begin(w, "move_prefix", "k1", CopyArgs(pr[1], pr[2], n), "copy_objects",
                       <<"move_remove">>)
              /\ UNCHANGED exc
         ELSE /\ Begin(w, "move_prefix", "k1", CopyArgs(pr[1], pr[2], n), "done", <<>>)
              /\ exc' = [exc EXCEPT ![w] = "ValueError"]
    /\ UNCHANGED <<darwin, fsVars, lockVars, pos, result, before>>

\* _copy_object of one source object: dst_bucket.put_object(name, self.get_object(obj)),
\* where MemoryBucket.put_object validates the name; with one thread the objects
\* are taken in the order of the list, with more in any order
CopyObject(w) ==
    /\ pc[w] = "copy_objects"
    /\ stream[w].content # <<>>
    /\ \E i \in (IF stream[w].threads = 1 THEN {1} ELSE 1 .. Len(stream[w].content)) :
         LET obj == stream[w].content[i]
             name == Translate(obj, stream[w].src, stream[w].dst)
         IN /\ IF ValidName(name)
               THEN main' = [main EXCEPT ![KeyFor(name)] = File(fs[obj].data)] /\ UNCHANGED exc
               ELSE exc' = [exc EXCEPT ![w] = "ValueError"] /\ UNCHANGED main
            /\ stream' = [stream EXCEPT ![w].content =
                              SubSeq(@, 1, i - 1) \o SubSeq(@, i + 1, Len(@))]
    /\ UNCHANGED <<darwin, fs, dirs, lockVars, ctlVars, op, key, ops, active, names, pos, result, before>>

\* an exception of a _copy_object leaves fastmap and copy_prefix (and move_prefix,
\* before its remove_prefix); the copies not yet made may or may not have run
CopyRaise(w) ==
    /\ pc[w] = "copy_objects"
    /\ exc[w] # "none"
    /\ pc' = [pc EXCEPT ![w] = "done"]
    /\ stack' = [stack EXCEPT ![w] = <<>>]
    /\ UNCHANGED <<darwin, fsVars, lockVars, argVars, outVars>>

\* all objects are copied: copy_prefix returns
CopyReturn(w) ==
    /\ pc[w] = "copy_objects"
    /\ stream[w].content = <<>> /\ exc[w] = "none"
    /\ Pop(w)
    /\ UNCHANGED <<darwin, fsVars, lockVars, argVars, outVars>>

\* remove_prefix: objects = self.list_objects(prefix), self.remove_objects(objects)
MoveRemovePrefix(w) ==
    /\ pc[w] = "move_remove"
    /\ stream' = [stream EXCEPT ![w].content = FSListing(stream[w].src)]
    /\ pos' = [pos EXCEPT ![w] = 0]
    /\ result' = [result EXCEPT ![w] = [tag |-> "errors", data |-> <<>>]]
    /\ Call(w, "fs_rm", <<"move_return">>)
    /\ UNCHANGED <<darwin, fsVars, lockVars, op, key, ops, active, names, exc, before>>

\* the error list of remove_objects is dropped; move_prefix returns None
MoveReturn(w) ==
    /\ pc[w] = "move_return"
    /\ result' = [result EXCEPT ![w] = NoResult]
    /\ Pop(w)
    /\ UNCHANGED <<darwin, fsVars, lockVars, argVars, pos, exc, before>>

\* ------------------------------------------- IBucketTester (bucket_tester.py)
\* the buckets the tester is run on: MemoryBucket, FSBucket, AppendOnlyFSBucket
Backends == {"mem", "fs", "ao"}
PutGetOp(b) == CASE b = "mem" -> "test_put_get_mem" [] b = "fs" -> "test_put_get_fs"
                 [] b = "ao" -> "test_put_get_ao"
PutGetStreamOp(b) == CASE b = "mem" -> "test_puts_gets_mem" [] b = "fs" -> "test_puts_gets_fs"
                       [] b = "ao" -> "test_puts_gets_ao"
PutGetOps == {PutGetOp(b) : b \in Backends}
PutGetStreamOps == {PutGetStreamOp(b) : b \in Backends}

\* where storage.put_object / put_object_stream starts on each bucket, and what follows
PutEntry(b) == CASE b = "mem" -> "mem_put" [] b = "fs" -> "fs_put_open" [] b = "ao" -> "lock_object"
PutRest(b) == IF b = "ao" THEN PutConts ELSE <<>>

\* where storage.get_object / get_object_stream starts for each test
GetEntry(o) ==
    CASE o \in {"test_put_get_mem", "test_puts_gets_mem"} -> "mem_get"
      [] o = "test_put_get_fs" -> "fs_get"
      [] o = "test_puts_gets_fs" -> "fs_gets"
      [] o = "test_put_get_ao" -> "ao_get_exists"
      [] o = "test_puts_gets_ao" -> "ao_gets_exists"

\* test_put_and_get_object: storage.put_object(path, content), then
\* storage.get_object(path); arg keeps the content as the test gave it
TestPutAndGetObject(w) ==
    /\ ops < MaxOps
    /\ \E b \in Backends, k \in names, i \in PutInputs :
         Begin(w, PutGetOp(b), k, [content |-> EncodeContent(i), failAt |-> -1, arg |-> i],
               PutEntry(b), PutRest(b) \o <<"rt_get">>)
    /\ UNCHANGED <<darwin, fsVars, lockVars, outVars>>

\* test_put_and_get_object_stream: storage.put_object_stream(path, BytesIO(c)),
\* then "with storage.get_object_stream(path) as file: file.read()"
TestPutAndGetObjectStream(w) ==
    /\ ops < MaxOps
    /\ \E b \in Backends, k \in names, i \in {j \in PutInputs : j.type = "bytes"} :
         Begin(w, PutGetStreamOp(b), k, [content |-> i.val, failAt |-> -1, arg |-> i],
               PutEntry(b), PutRest(b) \o <<"rt_get">> \o (IF b = "mem" THEN <<>> ELSE <<"stream_read">>))
    /\ UNCHANGED <<darwin, fsVars, lockVars, outVars>>

\* between the two calls: a put that raised ends the test
TestGet(w) ==
    /\ pc[w] = "rt_get"
    /\ IF exc[w] # "none"
       THEN pc' = [pc EXCEPT ![w] = "done"] /\ stack' = [stack EXCEPT ![w] = <<>>]
       ELSE Goto(w, GetEntry(op[w]))
    /\ UNCHANGED <<darwin, fsVars, lockVars, argVars, outVars>>

\* ------------------------------------------------------------ environment
\* the owner of the main store removes an object from it (MemoryBucket.remove_objects)
MainRemove(k) ==
    /\ main[k].present
    /\ main' = [main EXCEPT ![k] = Absent]
    /\ UNCHANGED <<darwin, fs, dirs, lockVars, ctlVars, argVars, outVars>>

\* the caller has its result; the worker is free for its next call
Finish(w) ==
    /\ pc[w] = "done"
    /\ pc' = [pc EXCEPT ![w] = "idle"]
    /\ op' = [op EXCEPT ![w] = "none"]
    /\ key' = [key EXCEPT ![w] = "k1"]
    /\ stream' = [stream EXCEPT ![w] = NoStream]
    /\ pos' = [pos EXCEPT ![w] = 0]
    /\ exc' = [exc EXCEPT ![w] = "none"]
    /\ result' = [result EXCEPT ![w] = NoResult]
    /\ before' = [before EXCEPT ![w] = Absent]
    /\ UNCHANGED <<darwin, fsVars, lockVars, stack, ops, active, names>>

\* --------------------------------------------------------- specifications
\* a root and a main store as given, no lock file, nothing in flight
StartFrom(ws, ks, ms, fss) ==
    /\ darwin \in BOOLEAN
    /\ fs \in fss
    /\ main \in ms
    /\ lockPath = [k \in Keys |-> 0]
    /\ ctx = [w \in Workers |-> [k \in Keys |-> NoCtx]]
    /\ tmpfd = [w \in Workers |-> 0]
    /\ locks = [p \in Procs |-> {}]
    /\ my_lock = [p \in Procs |-> "none"]
    /\ pc = [w \in Workers |-> "idle"]
    /\ stack = [w \in Workers |-> <<>>]
    /\ op = [w \in Workers |-> "none"]
    /\ key = [w \in Workers |-> "k1"]
    /\ stream = [w \in Workers |-> NoStream]
    /\ pos = [w \in Workers |-> 0]
    /\ exc = [w \in Workers |-> "none"]
    /\ result = [w \in Workers |-> NoResult]
    /\ ops = 0
    /\ active = ws
    /\ names = ks
    /\ before = [w \in Workers |-> Absent]
    /\ dirs = UNION {Ancestors(Chars(k)) : k \in {n \in Keys : fs[n].present}}

\* an empty cache directory, no lock file, nothing in flight
Start(ws, ks, ms) == StartFrom(ws, ks, ms, {[k \in Keys |-> Absent]})

\* the roots that puts of the names ks can have built: no file below a file
FSStores(ks) ==
    {f \in [Keys -> {Absent, File(ContentOf(1))}] :
        /\ \A k \in Keys : f[k].present => k \in ks
        /\ \A k \in Keys, a \in Keys :
              (f[k].present /\ f[a].present) => Chars(a) \notin Ancestors(Chars(k))}

\* a main store holding nothing, or any of the names ks
MainEmpty == {[k \in Keys |-> Absent]}
MainAny(ks) == {m \in [Keys -> {Absent} \cup {File(c) : c \in Contents}] :
                  \A k \in Keys : m[k].present => k \in ks /\ m[k].data = MainContent(k)}

\* steps every call through the synchronized bucket is made of
LockSteps(w) ==
    \/ LockObject(w) \/ AcquireOpen(w) \/ AcquireFlockOk(w)
    \/ UnlockEnter(w) \/ ReleaseRemove(w) \/ ReleaseUnlock(w) \/ UnlockExit(w)

PutSteps(w) == FSPutOpen(w) \/ FSPutChunk(w) \/ FSPutEOF(w)

GetSteps(w) ==
    \/ AOGetExists(w) \/ AOGetStreamExists(w)
    \/ FSGetObject(w) \/ FSGetObjectStream(w) \/ StreamRead(w)

CIBSteps(w) ==
    \/ CIBGetObject(w) \/ CIBGetObjectStream(w)
    \/ CIBPutObject(w) \/ CIBPutObjectStream(w) \/ CIBRemoveObjects(w)
    \/ CIBGetObjectMiss(w) \/ CIBGetObjectReturn(w) \/ CIBGetStreamMiss(w) \/ CIBGetStreamReget(w)

\* Spec: a thread of one process and a thread of another call the
\* AppendOnlyFSBucket of the same cache directory
Init == Start({"t1", "p2"}, {"k1"}, MainEmpty)

Next ==
    \E w \in Workers :
        \/ AOPutObject(w) \/ AOPutObjectStream(w) \/ AOGetObject(w) \/ AOGetObjectStream(w)
        \/ AORemoveObjects(w)
        \/ LockSteps(w) \/ AcquireFlockBusy(w)
        \/ PutSteps(w) \/ FSPutFail(w)
        \/ GetSteps(w)
        \/ Finish(w)

Spec == Init /\ [][Next]_vars

\* SpecLock: two threads of one process and a thread of another take and release
\* the lock of one name themselves
InitLock == Start(Workers, {"k1"}, MainEmpty)

NextLock ==
    \E w \in Workers :
        \/ LockCall(w) \/ UnlockCall(w)
        \/ LockSteps(w) \/ AcquireFlockBusy(w)
        \/ Finish(w)

SpecLock == InitLock /\ [][NextLock]_vars

\* the threads run: a thread that can take a step of _lock_object / _unlock_object
\* (the poll loop of acquire() included) eventually takes one
LiveLock == \A w \in Workers : WF_vars(LockSteps(w) \/ AcquireFlockBusy(w))

SpecLockFair == SpecLock /\ LiveLock

\* SpecWriters: two writers, each with its own FSBucket on one root, put
\* streams without any lock, and list
InitWriters == Start({"t1", "p2"}, {"dx", "d/x"}, MainEmpty)

NextWriters ==
    \E w \in Workers :
        \/ FSPutObjectStream(w) \/ FSListObjects(w)
        \/ PutSteps(w)
        \/ Finish(w)

SpecWriters == InitWriters /\ [][NextWriters]_vars

\* SpecShared: bucket A (t1) puts and removes, bucket B (p2) on the same root
\* looks
TreeNames == {"d", "dx", "d/x", "d/e/y"}

InitShared == StartFrom({"t1", "p2"}, TreeNames, MainEmpty, FSStores(TreeNames)) /\ ~darwin

NextShared ==
    \/ FSPutObject("t1") \/ FSRemoveObjects("t1")
    \/ FSExists("p2") \/ FSGetObjectCall("p2") \/ FSListObjects("p2")
    \/ \E w \in Workers :
          \/ PutSteps(w) \/ FSGetObject(w) \/ FSRemoveOne(w) \/ FSRemoveReturn(w)
          \/ Finish(w)

SpecShared == InitShared /\ [][NextShared]_vars

\* SpecRoundTrip: the tester alone puts and gets, on one bucket after the other:
\* a MemoryBucket, an FSBucket, and an AppendOnlyFSBucket over that FSBucket
InitRoundTrip == Start({"t1"}, TreeNames, MainEmpty)

NextRoundTrip ==
    \E w \in Workers :
        \/ TestPutAndGetObject(w) \/ TestPutAndGetObjectStream(w) \/ TestGet(w)
        \/ MemPut(w) \/ MemGet(w)
        \/ LockSteps(w) \/ PutSteps(w) \/ GetSteps(w)
        \/ Finish(w)

SpecRoundTrip == InitRoundTrip /\ [][NextRoundTrip]_vars

\* SpecStore: the tester alone removes and lists, on a MemoryBucket and on an
\* FSBucket that hold some of the names
InitStore == StartFrom({"t1"}, TreeNames, MainAny(TreeNames), FSStores(TreeNames)) /\ ~darwin

NextStore ==
    \E w \in Workers :
        \/ FSRemoveObjects(w) \/ FSRemoveOne(w) \/ FSRemoveReturn(w) \/ MemRemoveObjects(w)
        \/ FSListObjects(w) \/ MemListObjects(w)
        \/ FSShallowListObjects(w) \/ MemShallowListObjects(w)
        \/ Finish(w)

SpecStore == InitStore /\ [][NextStore]_vars

\* SpecListed: one caller puts streams, some of which break, through an FSBucket
\* and through the AppendOnlyFSBucket built on a root, while another lists that
\* root (a platform where release() leaves the lock file in place)
InitListed == Start({"t1", "p2"}, {"k1", "d/x"}, MainEmpty) /\ ~darwin

NextListed ==
    \/ FSPutObjectStream("t1") \/ AOPutObjectStream("t1")
    \/ LockSteps("t1") \/ PutSteps("t1") \/ FSPutFail("t1")
    \/ FSListObjects("p2") \/ FSShallowListObjects("p2")
    \/ AOListObjects("p2") \/ AOShallowListObjects("p2")
    \/ \E w \in Workers : Finish(w)

SpecListed == InitListed /\ [][NextListed]_vars

\* SpecCopy: one caller copies and moves prefixes of an FSBucket, whose objects
\* all differ, into a MemoryBucket
SourceContent(k) ==
    CASE k = "d" -> ContentOf(3) [] k = "dx" -> ContentOf(4)
      [] k = "d/x" -> ContentOf(5) [] k = "d/e/y" -> ContentOf(6)

CopySources ==
    {f \in [Keys -> {Absent} \cup {File(SourceContent(k)) : k \in TreeNames}] :
        /\ \A k \in Keys : f[k].present => k \in TreeNames /\ f[k].data = SourceContent(k)
        /\ \A k \in Keys, a \in Keys :
              (f[k].present /\ f[a].present) => Chars(a) \notin Ancestors(Chars(k))}

InitCopy == StartFrom({"t1"}, TreeNames, MainEmpty, CopySources) /\ ~darwin

NextCopy ==
    \E w \in Workers :
        \/ CopyPrefix(w) \/ MovePrefix(w)
        \/ CopyObject(w) \/ CopyRaise(w) \/ CopyReturn(w)
        \/ MoveRemovePrefix(w) \/ FSRemoveOne(w) \/ FSRemoveReturn(w) \/ MoveReturn(w)
        \/ Finish(w)

SpecCopy == InitCopy /\ [][NextCopy]_vars

\* SpecInvalid: one caller whose names are object names and texts that are none
InitInvalid ==
    StartFrom({"t1"}, {"d", "d/x"} \cup BadNames, MainAny({"d", "d/x"}), FSStores({"d", "d/x"})) /\ ~darwin

NextInvalid ==
    \E w \in Workers :
        \/ FSPutObject(w) \/ FSPutObjectStream(w) \/ PutSteps(w)
        \/ AOPutObject(w) \/ AOGetObject(w) \/ LockSteps(w) \/ AOGetExists(w) \/ FSGetObject(w)
        \/ FSGetSize(w)
        \/ FSRemoveObjects(w) \/ FSRemoveOne(w) \/ FSRemoveReturn(w) \/ MemRemoveObjects(w)
        \/ Finish(w)

SpecInvalid == InitInvalid /\ [][NextInvalid]_vars

\* SpecKeys: two threads of one process, which share one registry, lock, unlock,
\* put and get two names
InitKeys == Start({"t1", "t2"}, {"k1", "k2"}, MainEmpty) /\ ~darwin

NextKeys ==
    \E w \in Workers :
        \/ LockCall(w) \/ UnlockCall(w)
        \/ AOPutObject(w) \/ AOGetObject(w)
        \/ LockSteps(w) \/ AcquireFlockBusy(w)
        \/ PutSteps(w) \/ AOGetExists(w) \/ FSGetObject(w)
        \/ Finish(w)

SpecKeys == InitKeys /\ [][NextKeys]_vars

\* SpecCalls: two threads of one process put and get one name through
\* AppendOnlyFSBucket itself, and a thread of another process gets it through
\* CachedImmutableBucket, one call each; every thread that
\* can take a step of its call eventually takes one (the base store and the main
\* store answer, the poll loop of acquire() goes on)
InitCalls == Start(Workers, {"k1"}, MainAny({"k1"})) /\ ~darwin

CallSteps(w) ==
    \/ LockSteps(w) \/ AcquireFlockBusy(w)
    \/ PutSteps(w) \/ GetSteps(w)
    \/ CIBGetObjectMiss(w) \/ CIBGetObjectReturn(w) \/ CIBGetStreamMiss(w) \/ CIBGetStreamReget(w)

NextCalls ==
    \/ AOPutObject("t1")
    \/ AOGetObject("t2") \/ AOGetObjectStream("t2")
    \/ CIBGetObject("p2") \/ CIBGetObjectStream("p2")
    \/ \E w \in Workers : CallSteps(w)

SpecCalls == InitCalls /\ [][NextCalls]_vars /\ \A w \in Workers : WF_vars(CallSteps(w))

\* SpecMove: one thread moves a prefix of an FSBucket into a MemoryBucket while
\* another thread puts objects into the FSBucket
InitMove == StartFrom({"t1", "t2"}, TreeNames, MainEmpty, CopySources) /\ ~darwin

NextMove ==
    \/ MovePrefix("t1") \/ CopyObject("t1") \/ CopyRaise("t1") \/ CopyReturn("t1")
    \/ MoveRemovePrefix("t1") \/ FSRemoveOne("t1") \/ FSRemoveReturn("t1") \/ MoveReturn("t1")
    \/ FSPutObject("t2") \/ PutSteps("t2")

SpecMove == InitMove /\ [][NextMove]_vars

\* SpecFrame: one thread removes objects while another puts into the same
\* tree, every system call of both a step of its own
InitFrame == StartFrom({"t1", "t2"}, TreeNames, MainEmpty, FSStores(TreeNames)) /\ ~darwin

NextFrame ==
    \/ FSRemoveObjects("t1") \/ FSUnlink("t1") \/ FSRmdir("t1") \/ FSRemoveReturn("t1")
    \/ FSPutObject("t2") \/ FSPutMkdir("t2") \/ FSPutMkdirChild("t2") \/ FSPutCreate("t2")
    \/ FSPutChunk("t2") \/ FSPutEOF("t2")
    \/ \E w \in Workers : Finish(w)

SpecFrame == InitFrame /\ [][NextFrame]_vars

\* SpecBackends: an FSBucket and a MemoryBucket that hold the same objects; the
\* caller t1 makes a call on the FSBucket and, once it has its result, t2
\* makes the same call with the same arguments on the MemoryBucket
InitBackends ==
    /\ StartFrom({"t1", "t2"}, TreeNames, FSStores(TreeNames), FSStores(TreeNames))
    /\ main = fs
    /\ ~darwin

\* t2's call repeats the call o that t1 has made
SameCall(o) == pc["t1"] = "done" /\ op["t1"] = o

SameArgs == key'["t2"] = key["t1"] /\ stream'["t2"] = stream["t1"]

MemSamePut == SameCall("fs_put_object") /\ MemPutObject("t2") /\ SameArgs
MemSameGet == SameCall("fs_get_object") /\ MemGetObject("t2") /\ SameArgs
MemSameExists == SameCall("fs_exists") /\ MemExists("t2") /\ SameArgs
MemSameGetSize == SameCall("fs_get_size") /\ MemGetSize("t2") /\ SameArgs
MemSameList == SameCall("fs_list_objects") /\ MemListObjects("t2") /\ SameArgs
MemSameShallow == SameCall("fs_shallow_list_objects") /\ MemShallowListObjects("t2") /\ SameArgs
MemSameRemove == SameCall("fs_remove_objects") /\ MemRemoveObjects("t2") /\ SameArgs

NextBackends ==
    \/ FSPutObject("t1") \/ PutSteps("t1")
    \/ FSGetObjectCall("t1") \/ FSGetObject("t1")
    \/ FSExists("t1") \/ FSGetSize("t1")
    \/ FSListObjects("t1") \/ FSShallowListObjects("t1")
    \/ FSRemoveObjects("t1") \/ FSRemoveOne("t1") \/ FSRemoveReturn("t1")
    \/ MemSamePut \/ MemPut("t2")
    \/ MemSameGet \/ MemGet("t2")
    \/ MemSameExists \/ MemSameGetSize
    \/ MemSameList \/ MemSameShallow
    \/ MemSameRemove

SpecBackends == InitBackends /\ [][NextBackends]_vars

\* SpecSize: get_size and exists on FSBucket, AppendOnlyFSBucket and MemoryBucket
\* after puts, from every store the names can have built
InitSize == InitStore

NextSize ==
    \E w \in Workers :
        \/ FSPutObject(w) \/ PutSteps(w)
        \/ FSGetSize(w) \/ AOGetSize(w) \/ MemGetSize(w)
        \/ FSExists(w) \/ AOExists(w)
        \/ Finish(w)

SpecSize == InitSize /\ [][NextSize]_vars

\* SpecPrefix: listings and _split_prefix on every backend, from every store the
\* names can have built
InitPrefix == InitStore

NextPrefix ==
    \E w \in Workers :
        \/ FSListObjects(w) \/ FSShallowListObjects(w)
        \/ MemListObjects(w) \/ MemShallowListObjects(w)
        \/ AOListObjects(w) \/ AOShallowListObjects(w)
        \/ CIBListObjects(w) \/ CIBShallowListObjects(w)
        \/ SplitPrefixCall(w)
        \/ Finish(w)

SpecPrefix == InitPrefix /\ [][NextPrefix]_vars

\* SpecCIB: the same two call CachedImmutableBucket over that cache and a main
\* store whose owner may remove objects
InitCIB == Start({"t1", "p2"}, {"k1"}, MainAny({"k1"}))

NextCIB ==
    \/ \E w \in Workers :
        \/ CIBSteps(w)
        \/ LockSteps(w) \/ AcquireFlockBusy(w)
        \/ PutSteps(w)
        \/ GetSteps(w)
        \/ Finish(w)
    \/ \E k \in Keys : MainRemove(k)

SpecCIB == InitCIB /\ [][NextCIB]_vars

\* SpecSeq: one thread alone calls CachedImmutableBucket
InitSeq == Start({"t1"}, {"k1", "k2"}, MainAny({"k1", "k2"}))

NextSeq ==
    \/ \E w \in Workers :
        \/ CIBSteps(w)
        \/ CIBListObjects(w) \/ CIBShallowListObjects(w)
        \/ CIBExists(w) \/ CIBExistsMain(w) \/ CIBGetSize(w) \/ CIBGetSizeMain(w)
        \/ LockSteps(w)
        \/ PutSteps(w)
        \/ GetSteps(w)
        \/ Finish(w)
    \/ \E k \in Keys : MainRemove(k)

SpecSeq == InitSeq /\ [][NextSeq]_vars

\* ================================================================ claims
AOPuts == {"ao_put_object", "ao_put_object_stream"}
AOGets == {"ao_get_object", "ao_get_object_stream"}
CIBGets == {"cib_get_object", "cib_get_object_stream"}
CIBMutators == {"cib_put_object", "cib_put_object_stream", "cib_remove_objects"}
UnlockLabels == {"unlock_enter", "release", "release_unlock", "unlock_exit"}

\* worker r reads the file of its key in this step (read_bytes, or the read of a stream)
Reads(r) ==
    /\ pc[r] \in {"fs_get", "stream_read"}
    /\ pc'[r] # pc[r]
    /\ result'[r].tag = "bytes"

\* worker w is inside FSBucket.put_object_stream, the destination opened
Writing(w) == pc[w] = "fs_put_copy"

\* worker w is between a returned _lock_object(k) and its call of _unlock_object(k)
Between(w, k) == ctx[w][k].fd # 0 /\ ~(key[w] = k /\ pc[w] \in UnlockLabels)

\* C1: a read of K by another worker while FSBucket.put_object_stream(K, C) is in
\* flight returns a complete stored value (or raises FileNotFoundError), never an
\* empty, truncated or mixed one.
C1_AtomicWrite ==
    [][\A r \in Workers, w \in Workers :
          (r # w /\ key[r] = key[w] /\ Writing(w) /\ Reads(r))
              => result'[r].data \in Contents]_vars

\* C2: for every key at most one worker at a time is between a returned
\* _lock_object(K) and its matching _unlock_object(K).
C2_MutualExclusion ==
    \A k \in Keys : \A w1 \in Workers, w2 \in Workers :
        (Between(w1, k) /\ Between(w2, k)) => w1 = w2

\* C3: an append-only get_object / get_object_stream of K that reads while another
\* worker executes put_object(K, C) on a previously absent K returns exactly C
\* (or finds K absent), never a partial value.
C3_ReaderBehindWriter ==
    [][\A r \in Workers, w \in Workers :
          (/\ r # w /\ key[r] = key[w]
           /\ op[r] \in AOGets /\ op[w] \in AOPuts
           /\ Writing(w) /\ ~before[w].present
           /\ Reads(r))
              => result'[r].data = stream[w].content]_vars

\* C4: when processes race on a cache miss of K while main holds K -> C, every
\* CachedImmutableBucket.get_object(K) returns exactly C and the cache finally
\* holds K -> C.
C4_RacingMiss ==
    /\ \A w \in Workers :
         (pc[w] = "done" /\ op[w] = "cib_get_object" /\ exc[w] = "none")
             => result[w] = Bytes(MainContent(key[w]))
    /\ \A k \in Keys :
         ((\A w \in Workers : pc[w] \in {"idle", "done"}) /\ Exists(k))
             => fs[k].data = MainContent(k)

\* C5: while FSBucket.put_object_stream(K, stream) for a previously absent K is
\* consuming the stream, exists(K) is false and get_size(K) raises
\* FileNotFoundError; once it has returned, exists(K) is true and get_size(K) is
\* the length of the stream.
C5_VisibleAfterCompletion ==
    \A w \in Workers :
        /\ (Writing(w) /\ ~before[w].present)
               => (~Exists(key[w]) /\ GetSize(key[w]) = -1)
        /\ (pc[w] = "unlock_enter" /\ op[w] \in AOPuts /\ exc[w] = "none")
               => (Exists(key[w]) /\ GetSize(key[w]) = Len(stream[w].content))

\* C6: when the source stream raises during FSBucket.put_object_stream(K, stream)
\* the destination is untouched: an absent K stays absent, a stored K keeps its
\* old content.
C6_FailedWriteNoTrace ==
    [][\A w \in Workers :
          (Writing(w) /\ exc[w] = "none" /\ exc'[w] = "IOError")
              => fs'[key[w]] = before[w]]_vars

\* C7: with main holding K -> C, CachedImmutableBucket.get_object(K) and
\* get_object_stream(K) return C and leave K in the cache, also after K has been
\* removed from main; they raise FileNotFoundError only when neither holds K.
C7_CachePopulation ==
    \A w \in Workers :
        (pc[w] = "done" /\ op[w] \in CIBGets) =>
            IF exc[w] = "none"
            THEN /\ result[w] = Bytes(MainContent(key[w]))
                 /\ Exists(key[w])
                 /\ fs[key[w]].data = MainContent(key[w])
            ELSE /\ exc[w] = "FileNotFoundError"
                 /\ ~Exists(key[w])
                 /\ ~main[key[w]].present

\* K is served from the cache after main has lost it
C7_Witness ==
    \E w \in Workers :
        /\ pc[w] = "done" /\ op[w] \in CIBGets /\ exc[w] = "none"
        /\ result[w] = Bytes(MainContent(key[w]))
        /\ Exists(key[w])
        /\ ~main[key[w]].present

\* C8: CachedImmutableBucket.put_object, put_object_stream and remove_objects
\* raise io.UnsupportedOperation in every state and change neither the cache nor
\* the main store.
C8_Immutable ==
    [][\A w \in Workers :
          (pc[w] = "idle" /\ op'[w] \in CIBMutators)
              => (/\ exc'[w] = "UnsupportedOperation"
                  /\ pc'[w] = "done"
                  /\ fs' = fs
                  /\ main' = main)]_vars

\* a mutator has raised while the cache and main hold an object
C8_Witness ==
    \E w \in Workers :
        /\ pc[w] = "done" /\ op[w] = "cib_put_object"
        /\ exc[w] = "UnsupportedOperation"
        /\ Exists(key[w]) /\ main[key[w]].present

\* C9: through the append-only bucket a stored entry is never overwritten: a
\* put_object / put_object_stream of K that finds K -> C1 stored leaves K -> C1.
C9_FirstWriteWins ==
    \A w \in Workers :
        (/\ pc[w] = "unlock_enter" /\ op[w] \in AOPuts /\ exc[w] = "none"
         /\ before[w].present /\ before[w].data \in Contents)
            => fs[key[w]].data = before[w].data

\* C10: the append-only bucket's remove_objects raises io.UnsupportedOperation
\* and removes nothing, and no step of any call makes an existing key disappear.
C10_AppendOnlyKeys ==
    [][/\ \A k \in Keys : fs[k].present => fs'[k].present
       /\ \A w \in Workers :
            (pc[w] = "idle" /\ op'[w] = "ao_remove_objects")
                => (exc'[w] = "UnsupportedOperation" /\ fs' = fs)]_vars

\* remove_objects has raised on a key that exists
C10_Witness ==
    \E w \in Workers :
        /\ pc[w] = "done" /\ op[w] = "ao_remove_objects"
        /\ exc[w] = "UnsupportedOperation"
        /\ Exists(key[w])

\* C11: when an append-only put_object, put_object_stream, get_object or
\* get_object_stream on K has returned or raised (a failed base write and a
\* FileNotFoundError of the locked read included), the caller holds neither the
\* file lock of K nor a descriptor on its lock file nor the registry mutex.
C11_LockReleased ==
    \A w \in Workers :
        (pc[w] = "done" /\ op[w] \in AOPuts \cup AOGets)
            => (/\ ctx[w][key[w]] = NoCtx
                /\ tmpfd[w] = 0
                /\ my_lock[ProcOf(w)] # w)

\* a put whose stream raised and a locked read that found nothing have both ended
C11_Witness ==
    \E w \in Workers, r \in Workers :
        /\ pc[w] = "done" /\ op[w] = "ao_put_object_stream" /\ exc[w] = "IOError"
        /\ key[w] \in locks[ProcOf(w)]
        /\ pc[r] = "done" /\ op[r] = "ao_get_object" /\ exc[r] = "FileNotFoundError"
        /\ key[r] \in locks[ProcOf(r)]

\* worker w is inside a call of _lock_object that has not returned
InLock(w) == op[w] = "_lock_object" /\ pc[w] # "done"

\* worker w holds the file lock of some key
Holds(w) == \E k \in Keys : ctx[w][k].fd # 0

C13_UnlockWithoutLock ==
    [][\A w \in Workers :
          /\ (pc[w] = "unlock_enter" /\ pc'[w] # pc[w] /\ key[w] \notin locks[ProcOf(w)])
                => (/\ exc'[w] = "RuntimeError"
                    /\ pc'[w] = "done"
                    /\ lockVars' = lockVars)
          /\ (pc[w] = "unlock_enter" /\ pc'[w] # pc[w] /\ key[w] \in locks[ProcOf(w)])
                => (exc'[w] = "none" /\ pc'[w] = "release")
          /\ (pc[w] = "release" /\ pc'[w] # pc[w] /\ ctx[w][key[w]].fd # 0)
                => ctx'[w][key[w]].counter = ctx[w][key[w]].counter - 1
          /\ (pc[w] = "unlock_exit" /\ pc'[w] = "done")
                => (ctx[w][key[w]].fd = 0 <=> ctx[w][key[w]].counter = 0)]_vars

\* an unlock without a handle has raised while another process holds the lock
C13_Witness ==
    \E w \in Workers, h \in Workers :
        /\ pc[w] = "done" /\ op[w] = "_unlock_object" /\ exc[w] = "RuntimeError"
        /\ ctx[h][key[w]].fd # 0

\* every writer of the run is inside its first put_object_stream
AllInFlight ==
    /\ ops = Cardinality(active)
    /\ \A w \in active : op[w] = "fs_put_object_stream" /\ pc[w] \in {"fs_put_open", "fs_put_copy"}

\* every writer of the run has returned from its first put_object_stream
AllReturned ==
    /\ ops = Cardinality(active)
    /\ \A w \in active : op[w] = "fs_put_object_stream" /\ pc[w] = "done" /\ exc[w] = "none"

\* C14: writers through FSBucket instances of one root, without a lock: while all
\* are in flight list_objects("") shows none of their keys; when all have
\* returned every target key is listed and holds the complete content of one of
\* its writers, and nothing but the target keys is in the root.
C14_ConcurrentWriters ==
    /\ AllInFlight => \A w \in active : key[w] \notin Range(FSListing(<<>>))
    /\ AllReturned =>
          /\ \A w \in active :
                /\ key[w] \in Range(FSListing(<<>>))
                /\ \E v \in active : key[v] = key[w] /\ fs[key[w]].data = stream[v].content
          /\ Range(FSListing(<<>>)) = {key[w] : w \in active}

\* what a test's get has to return: the content as bytes
Expected(i) == IF i.type = "str" THEN EncodeUTF8(i.val) ELSE i.val

C16_SharedRoot ==
    [][(pc["t1"] = "done" /\ pc'["p2"] # pc["p2"]) =>
          /\ (op["t1"] = "fs_put_object" /\ exc["t1"] = "none" /\ key'["p2"] = key["t1"]) =>
                /\ op'["p2"] = "fs_exists" => result'["p2"].data = <<TRUE>>
                /\ pc["p2"] = "fs_get"
                      => (exc'["p2"] = "none" /\ result'["p2"] = Bytes(stream["t1"].content))
          /\ (op["t1"] = "fs_remove_objects" /\ exc["t1"] = "none") =>
                /\ (op'["p2"] = "fs_exists" /\ key'["p2"] \in Range(stream["t1"].content))
                      => result'["p2"].data = <<FALSE>>
                /\ (op'["p2"] = "fs_list_objects" /\ stream'["p2"].content = <<>>)
                      => Range(result'["p2"].data) \cap Range(stream["t1"].content) = {}]_vars

\* B has read from a name that was absent what A put there
C16_Witness ==
    /\ pc["t1"] = "done" /\ op["t1"] = "fs_put_object" /\ exc["t1"] = "none"
    /\ pc["p2"] = "done" /\ op["p2"] = "fs_get_object" /\ key["p2"] = key["t1"]
    /\ ~before["t1"].present
    /\ result["p2"] = Bytes(stream["t1"].content) /\ stream["t1"].content # <<>>

\* the prefix is valid as the interface words it: it does not start with "/", has
\* no "//", and all its characters are name characters or "/"
WellFormedPrefix(s) ==
    /\ ~StartsWith(s, <<SEP>>)
    /\ ~\E i \in 1 .. (Len(s) - 1) : SubSeq(s, i, i + 1) = <<SEP, SEP>>
    /\ Range(s) \subseteq NameChars \cup {SEP}

RemoveOps == {"fs_remove_objects", "mem_remove_objects"}
ListOps == {"fs_list_objects", "mem_list_objects"}
ShallowOps == {"fs_shallow_list_objects", "mem_shallow_list_objects"}

\* the names stored in the bucket that operation o is called on
Stored(o) ==
    IF o \in {"fs_remove_objects", "fs_list_objects", "fs_shallow_list_objects"}
    THEN {k \in DOMAIN fs : fs[k].present}
    ELSE {k \in DOMAIN main : main[k].present}

NoDuplicates(s) == Cardinality(Range(s)) = Len(s)

\* C17: remove_objects(keys) on FSBucket and MemoryBucket, with keys that exist
\* and keys that do not, does not raise, returns an empty error list, and leaves
\* none of the listed keys stored (so that the same call again finds the same).
C17_IdempotentDelete ==
    \A w \in Workers :
        (pc[w] = "done" /\ op[w] \in RemoveOps) =>
            /\ exc[w] = "none"
            /\ result[w].data = <<>>
            /\ Range(stream[w].content) \cap Stored(op[w]) = {}

\* C18: when FSBucket.remove_objects has returned, no directory above a name it
\* removed is left empty, every directory that still has an entry is still
\* there, and every prefix of shallow_list_objects("") has an object below it.
C18_EmptyDirCleanup ==
    \A w \in Workers :
        (pc[w] = "done" /\ op[w] = "fs_remove_objects") =>
            /\ \A k \in Range(stream[w].content) \ Range(result[w].data) :
                  \A a \in Ancestors(Chars(k)) : a \in dirs => Children(a) # {}
            /\ \A k \in Stored(op[w]) : Ancestors(Chars(k)) \subseteq dirs
            /\ \A q \in Range(FSShallow(<<>>).prefixes) :
                  \E k \in Stored(op[w]) : StartsWith(Chars(k), q)

\* "d/e/y" was removed: "d/e" went with it, "d" stays for "d/x"
C18_Witness ==
    \E w \in Workers :
        /\ pc[w] = "done" /\ op[w] = "fs_remove_objects"
        /\ stream[w].content = <<"d/e/y">> /\ before[w].present
        /\ fs["d/x"].present
        /\ dirs = {<<"d">>}

\* C19: shallow_list_objects(P) on FSBucket and MemoryBucket for a valid P: a
\* stored key that starts with P and has no "/" after P is in .objects; one that
\* has is under exactly one entry of .prefixes, namely P, its next segment and
\* "/"; .objects and .prefixes hold nothing else and nothing twice.
C19_ShallowPartition ==
    \A w \in Workers :
        (pc[w] = "done" /\ op[w] \in ShallowOps /\ WellFormedPrefix(stream[w].content)) =>
            LET P == stream[w].content
                matching == {k \in Stored(op[w]) : StartsWith(Chars(k), P)}
                flat == {k \in matching : FirstSep(Rest(k, P)) = 0}
                Summary(k) == P \o SubSeq(Rest(k, P), 1, FirstSep(Rest(k, P)) - 1) \o <<SEP>>
                objects == result[w].data
                prefixes == result[w].prefixes
            IN /\ NoDuplicates(objects) /\ NoDuplicates(prefixes)
               /\ Range(objects) = flat
               /\ Range(prefixes) = {Summary(k) : k \in matching \ flat}
               /\ \A k \in matching \ flat :
                     {q \in Range(prefixes) : StartsWith(Chars(k), q)} = {Summary(k)}
               /\ \A k \in flat : \A q \in Range(prefixes) : ~StartsWith(Chars(k), q)

\* the FSBucket was asked for "d" and gave the object "dx" and the prefix "d/"
C19_Witness ==
    \E w \in Workers :
        /\ pc[w] = "done" /\ op[w] = "fs_shallow_list_objects"
        /\ stream[w].content = <<"d">>
        /\ result[w].data = <<"dx">> /\ result[w].prefixes = <<(<<"d", "/">>)>>
        /\ fs["d/e/y"].present /\ fs["d/x"].present

\* C20: list_objects(P) on FSBucket and MemoryBucket for a valid P returns exactly
\* the stored keys whose text starts with P, each once ("d" matches "d/x" and
\* "dx", "d/" only the keys under "d/"), and list_objects("") every stored key.
C20_RecursiveListing ==
    \A w \in Workers :
        (pc[w] = "done" /\ op[w] \in ListOps /\ WellFormedPrefix(stream[w].content)) =>
            /\ NoDuplicates(result[w].data)
            /\ Range(result[w].data) = {k \in Stored(op[w]) : StartsWith(Chars(k), stream[w].content)}
            /\ stream[w].content = <<>> => Range(result[w].data) = Stored(op[w])

\* the FSBucket was asked for "d/" while it also held "dx"
C20_Witness ==
    \E w \in Workers :
        /\ pc[w] = "done" /\ op[w] = "fs_list_objects"
        /\ stream[w].content = <<"d", "/">>
        /\ Range(result[w].data) = {"d/x", "d/e/y"}
        /\ fs["dx"].present

AllListOps == {"fs_list_objects", "mem_list_objects", "ao_list_objects", "cib_list_objects"}
AllShallowOps == {"fs_shallow_list_objects", "mem_shallow_list_objects",
                  "ao_shallow_list_objects", "cib_shallow_list_objects"}

\* C21: list_objects(P) and shallow_list_objects(P) on every backend raise
\* ValueError, and return nothing, exactly when P starts with "/", contains "//"
\* or contains a character outside the allowed set; never for a valid P or "".
C21_PrefixValidation ==
    \A w \in Workers :
        (pc[w] = "done" /\ op[w] \in AllListOps \cup AllShallowOps) =>
            IF WellFormedPrefix(stream[w].content)
            THEN exc[w] = "none"
            ELSE exc[w] = "ValueError" /\ result[w] = NoResult

\* C22: for every valid prefix s, _split_prefix(s) returns (dir, name) with
\* dir + name = s, name without "/", and dir empty or a run of non-empty segments
\* each followed by "/"; _split_prefix("") returns ("", "").
C22_PrefixSplit ==
    \A w \in Workers :
        (pc[w] = "done" /\ op[w] = "_split_prefix" /\ WellFormedPrefix(stream[w].content)) =>
            /\ exc[w] = "none" /\ result[w].tag = "split"
            /\ LET s == stream[w].content
                   dir == result[w].data[1]
                   name == result[w].data[2]
               IN /\ dir \o name = s
                  /\ SEP \notin Range(name)
                  /\ dir # <<>> => dir[Len(dir)] = SEP /\ WellFormedPrefix(dir)
                  /\ s = <<>> => dir = <<>> /\ name = <<>>

\* "d/e/" was split into "d/e/" and ""
C22_Witness ==
    \E w \in Workers :
        /\ pc[w] = "done" /\ op[w] = "_split_prefix"
        /\ stream[w].content = <<"d", "/", "e", "/">>
        /\ result[w].tag = "split"
        /\ result[w].data = <<(<<"d", "/", "e", "/">>), <<>>>>

\* C23: CachedImmutableBucket.list_objects(P) and shallow_list_objects(P) return
\* what main holds under P, whatever the cache holds: a key that only the cache
\* has is not listed, although get_object still returns its content.
C23_EnumerationFromMain ==
    [][\A w \in Workers :
        LET P == stream'[w].content
            returns(o) == pc[w] = "idle" /\ pc'[w] = "done" /\ op'[w] = o /\ WellFormedPrefix(P)
            under == {k \in Keys : main[k].present /\ StartsWith(Chars(k), P)}
        IN /\ returns("cib_list_objects") =>
                result'[w].tag = "list" /\ Range(result'[w].data) = under
           /\ returns("cib_shallow_list_objects") =>
                /\ result'[w].tag = "shallow"
                /\ Range(result'[w].data) = {k \in under : SEP \notin Range(Rest(k, P))}
           /\ (op[w] = "cib_get_object" /\ fs[key[w]].present /\ ~main[key[w]].present
                 /\ pc'[w] = "done" /\ pc[w] # "done") =>
                result'[w].tag = "bytes" /\ result'[w].data = fs[key[w]].data]_vars

\* "k1" was cached, main lost it, and the listing of everything leaves it out
C23_Witness ==
    \E w \in Workers :
        /\ pc[w] = "done" /\ op[w] = "cib_list_objects" /\ stream[w].content = <<>>
        /\ fs["k1"].present /\ ~main["k1"].present /\ main["k2"].present
        /\ result[w].tag = "list" /\ result[w].data = <<"k2">>

\* C24: CachedImmutableBucket.exists(K) is true exactly when the cache or main
\* has K, and main is asked only when the cache has answered false.
C24_ExistsCacheOrMain ==
    [][\A w \in Workers :
        LET k == key'[w]
        IN op'[w] = "cib_exists" =>
            /\ (pc[w] = "idle" /\ pc'[w] = "done") =>
                  fs[k].present /\ result'[w].data = <<TRUE>>
            /\ (pc[w] = "idle" /\ pc'[w] = "cib_exists_main") => ~fs[k].present
            /\ (pc[w] = "cib_exists_main" /\ pc'[w] # pc[w]) =>
                  /\ pc'[w] = "done"
                  /\ result'[w].data = <<fs[k].present \/ main[k].present>>]_vars

\* the cache did not have "k1", main had it, and the answer was true
C24_Witness ==
    \E w \in Workers :
        /\ pc[w] = "done" /\ op[w] = "cib_exists" /\ key[w] = "k1"
        /\ ~fs["k1"].present /\ main["k1"].present
        /\ result[w].tag = "bool" /\ result[w].data = <<TRUE>>

\* C25: CachedImmutableBucket.get_size(K) returns the cache's size without
\* calling main when the cache has K; calls main.get_size once when the cache
\* raises FileNotFoundError, and raises FileNotFoundError when main does too; no
\* step of it changes the cache.
C25_GetSizeFallthrough ==
    [][\A w \in Workers :
        LET k == key'[w]
        IN op'[w] = "cib_get_size" =>
            /\ fs' = fs /\ dirs' = dirs /\ lockPath' = lockPath
            /\ (pc[w] = "idle" /\ fs[k].present) =>
                  /\ pc'[w] = "done" /\ exc'[w] = "none"
                  /\ result'[w].tag = "int" /\ result'[w].data = <<Len(fs[k].data)>>
            /\ (pc[w] = "idle" /\ pc'[w] = "cib_get_size_main") => StatSizes(k) = {}
            /\ (pc[w] = "cib_get_size_main" /\ pc'[w] # pc[w]) =>
                  /\ pc'[w] = "done"
                  /\ IF main[k].present
                     THEN exc'[w] = "none" /\ result'[w].tag = "int"
                          /\ result'[w].data = <<Len(main[k].data)>>
                     ELSE exc'[w] = "FileNotFoundError" /\ result'[w] = NoResult]_vars

\* the size came from main and the cache still has no "k1"
C25_Witness ==
    \E w \in Workers :
        /\ pc[w] = "done" /\ op[w] = "cib_get_size" /\ key[w] = "k1"
        /\ ~fs["k1"].present /\ main["k1"].present
        /\ result[w].tag = "int" /\ result[w].data = <<Len(main["k1"].data)>>

GetSizeOps == {"fs_get_size", "ao_get_size", "mem_get_size"}

\* C26: on FSBucket, AppendOnlyFSBucket and MemoryBucket get_size(K) returns the
\* length of the content stored under K when K exists, and raises
\* FileNotFoundError when it does not, also when K is only the directory-like
\* prefix of stored keys.
C26_SizeAgreesWithExistence ==
    \A w \in Workers :
        (pc[w] = "done" /\ op[w] \in GetSizeOps) =>
            LET obj == IF op[w] = "mem_get_size" THEN main[key[w]] ELSE fs[key[w]]
            IN IF obj.present
               THEN exc[w] = "none" /\ result[w].tag = "int" /\ result[w].data = <<Len(obj.data)>>
               ELSE exc[w] = "FileNotFoundError"

\* the caller holds nothing of the lock on k: no descriptor, no count, not _my_lock
LockFree(w, k) == ctx[w][k] = NoCtx /\ tmpfd[w] = 0 /\ my_lock[ProcOf(w)] # w

\* C27: CachedImmutableBucket.get_object(K) with K neither in the cache nor in
\* main raises FileNotFoundError and returns nothing; the cache is left without
\* K, no step of the call changes main, and no lock on K stays held.
C27_MissEverywhere ==
    /\ [](\A w \in Workers :
            (pc[w] = "done" /\ op[w] = "cib_get_object") =>
                /\ (~fs[key[w]].present /\ ~main[key[w]].present) => exc[w] = "FileNotFoundError"
                /\ exc[w] = "FileNotFoundError" =>
                      /\ ~fs[key[w]].present /\ dirs = {}
                      /\ result[w] = NoResult
                      /\ LockFree(w, key[w]))
    /\ [][\A w \in Workers :
            (op[w] = "cib_get_object" /\ pc'[w] # pc[w]) => main' = main]_vars

\* the call for "k1" has raised: neither store has it, and main still has "k2"
C27_Witness ==
    \E w \in Workers :
        /\ pc[w] = "done" /\ op[w] = "cib_get_object" /\ key[w] = "k1"
        /\ exc[w] = "FileNotFoundError"
        /\ ~fs["k1"].present /\ ~main["k1"].present /\ main["k2"].present
        /\ LockFree(w, "k1")

\* a put of k has returned normally and k holds what it wrote
PutComplete(k) ==
    /\ fs[k].present /\ fs[k].data \in Contents
    /\ ~\E w \in Workers : key[w] = k /\ pc[w] = "fs_put_copy"

\* C28: list_objects and shallow_list_objects of an FSBucket, and of an
\* AppendOnlyFSBucket built with the default locks directory, return only keys
\* whose put has completed: no write in flight, no write that failed, no lock
\* file, and no prefix without such a key below it.
C28_ListingsShowObjectsOnly ==
    [][\A w \in Workers :
        (pc[w] = "idle" /\ pc'[w] = "done" /\ WellFormedPrefix(stream'[w].content)) =>
            /\ op'[w] \in {"fs_list_objects", "ao_list_objects"} =>
                  \A n \in Range(result'[w].data) : n \in Keys /\ PutComplete(n)
            /\ op'[w] \in {"fs_shallow_list_objects", "ao_shallow_list_objects"} =>
                  /\ \A n \in Range(result'[w].data) : n \in Keys /\ PutComplete(n)
                  /\ \A q \in Range(result'[w].prefixes) :
                        \E k \in Keys : PutComplete(k) /\ StartsWith(Chars(k), q)]_vars

\* the source keys under the prefix of the call of w, and where each is copied to
Matching(w, store) == {k \in Keys : store[k].present /\ StartsWith(Chars(k), stream[w].src)}
Target(w, k) == Translate(k, stream[w].src, stream[w].dst)

\* C29: when copy_prefix(dst, src_prefix, dst_prefix, threads) has returned, the
\* source is as it was, and every source key k under src_prefix has its own key
\* dst_prefix + k[len(src_prefix):] (less one leading "/") in dst, holding k's
\* content, whatever the value of threads.
C29_CopyPrefix ==
    \A w \in Workers :
        (pc[w] = "done" /\ op[w] = "copy_prefix" /\ exc[w] = "none") =>
            /\ fs = stream[w].found
            /\ \A k \in Matching(w, fs) :
                  /\ ValidName(Target(w, k))
                  /\ main[KeyFor(Target(w, k))] = File(fs[k].data)
            /\ \A k \in Matching(w, fs), j \in Matching(w, fs) :
                  k # j => Target(w, k) # Target(w, j)

\* C30: when src.move_prefix(dst, src_prefix, dst_prefix) has returned, every
\* object that src held under src_prefix is in dst under its translated name with
\* its content, src has no key that starts with src_prefix, and the other
\* objects of src are as they were.
C30_MovePrefix ==
    \A w \in Workers :
        (pc[w] = "done" /\ op[w] = "move_prefix" /\ exc[w] = "none") =>
            LET found == stream[w].found
            IN /\ \A k \in Matching(w, found) :
                     /\ ValidName(Target(w, k))
                     /\ main[KeyFor(Target(w, k))] = File(found[k].data)
               /\ \A k \in Keys :
                     IF StartsWith(Chars(k), stream[w].src)
                     THEN ~fs[k].present
                     ELSE fs[k] = found[k]

\* C35: when the unlink of one key inside FSBucket.remove_objects fails, the call
\* does not raise: the key is in the returned error list, the keys after it are
\* deleted all the same, and the list is returned.
C35_BestEffortDelete ==
    \A w \in Workers :
        (pc[w] = "done" /\ op[w] = "fs_remove_objects") =>
            /\ exc[w] = "none"
            /\ \A k \in Range(stream[w].content) :
                  IF IsDir(Chars(k)) \/ UnderFile(Chars(k))
                  THEN k \in Range(result[w].data)
                  ELSE ~fs[k].present

\* the call that w runs was given a text that is no object name
InvalidCall(w) ==
    /\ op[w] # "none"
    /\ \/ key[w] \in BadNames
       \/ op[w] \in RemoveOps /\ Range(stream[w].content) \cap BadNames # {}

\* C31: a call given an invalid name changes no file, no directory, no object of
\* the memory bucket, no lock file and no registry entry, takes no lock, and ends
\* with ValueError: put_object / put_object_stream, get_size, the put and get of
\* AppendOnlyFSBucket, and remove_objects whose list has an invalid name after
\* valid ones.
C31_FailFast ==
    [][\A w \in Workers :
          InvalidCall(w)' =>
              /\ UNCHANGED <<fs, dirs, main, lockPath, locks, ctx>>
              /\ pc'[w] = "done" => exc'[w] = "ValueError"]_vars

\* C32: _my_lock is held only while the handle is looked up or inserted: no
\* thread is inside the file lock's acquire (open, flock) or inside its release
\* (removal of the lock file, unlock) while it owns _my_lock.
C32_RegistryMutexScope ==
    \A w \in Workers :
        pc[w] \in {"acquire_open", "acquire_flock", "release", "release_unlock"} =>
            my_lock[ProcOf(w)] # w


\* texts of up to three characters, "$" among them
NameTexts ==
    UNION {[1 .. n -> {"d", "x", SEP, "$"}] : n \in 1 .. 3}

\* C33 (both definitions): two different valid names have different lock names, and a thread that
\* is about to enter the registry of its bucket for one name (in _lock_object or
\* _unlock_object, alone or inside put_object / get_object) is never kept out by
\* a thread that holds or waits for the lock of another name.
LockNamesDiffer ==
    \A s \in NameTexts, t \in NameTexts :
        (ValidName(s) /\ ValidName(t) /\ s # t) => LockObjectName(s) # LockObjectName(t)

C33_KeyIndependence ==
    /\ LockNamesDiffer
    /\ \A v \in Workers :
          pc[v] \in {"lock_object", "unlock_enter"} =>
              ~\E o \in Workers \ {v} :
                  /\ my_lock[ProcOf(v)] = o
                  /\ key[o] # key[v]
                  /\ ctx[o][key[o]].fd # 0 \/ pc[o] \in {"acquire_open", "acquire_flock"}

\* C34: a thread that holds the lock of K and calls _lock_object(K) again comes
\* back at once, one level deeper; and as long as it has called _unlock_object(K)
\* fewer times than _lock_object(K), no thread of another process holds the lock
\* of K.
C34_ReentrantLock ==
    /\ [](\A w \in Workers, v \in Workers, k \in Keys :
            (ctx[w][k].counter >= 1 /\ ctx[w][k].fd # 0 /\ ProcOf(v) # ProcOf(w))
                => ctx[v][k].fd = 0)
    /\ [][\A w \in Workers :
            (pc[w] = "lock_object" /\ pc'[w] # pc[w] /\ ctx[w][key[w]].fd # 0)
                => /\ pc'[w] = "done"
                   /\ ctx'[w][key[w]].counter = ctx[w][key[w]].counter + 1
                   /\ ctx'[w][key[w]].fd = ctx[w][key[w]].fd]_vars

\* C36: on darwin, where _release removes the lock file before it gives up the
\* OS lock, no two threads of different processes hold the lock of the same name
\* at the same time.
C36_DeletionKeepsExclusion ==
    darwin =>
        \A w \in Workers, v \in Workers, k \in Keys :
            (ProcOf(w) # ProcOf(v) /\ ctx[w][k].fd # 0) => ctx[v][k].fd = 0

\* worker w is inside a call that has neither returned nor raised
InCall(w) == pc[w] \notin {"idle", "done"}

C38_MoveLosesNothing ==
    [][\A w \in Workers, k \in Keys :
          (op[w] = "move_prefix" /\ pc[w] = "fs_rm" /\ fs[k].present /\ ~fs'[k].present)
              => /\ ValidName(Target(w, k))
                 /\ main[KeyFor(Target(w, k))] = File(fs[k].data)]_vars

\* a step of w's remove_objects: its unlink or a round of its directory cleanup
RemoveStep(w) ==
    /\ op[w] = "fs_remove_objects"
    /\ pc[w] \in {"fs_rm", "fs_rmdir"}
    /\ <<pc[w], stack[w], pos[w]>> # <<pc'[w], stack'[w], pos'[w]>>

\* C39: FSBucket.remove_objects changes nothing but the listed keys, also while
\* another thread puts into the same directory tree: a step of the call
\* changes no file but the listed one its unlink is at, and its directory
\* cleanup changes no file at all, so a put that has completed keeps its
\* object; the cleanup never turns to the root, creates no directory and
\* removes only directories without an entry; every stored file keeps all the
\* directories above it.
C39_DeleteFrame ==
    /\ [](\A w \in Workers : pc[w] = "fs_rmdir" => DirToRemove(w) # <<>>)
    /\ [](\A k \in Keys : fs[k].present => Ancestors(Chars(k)) \subseteq dirs)
    /\ [][\A w \in Workers : RemoveStep(w) =>
             /\ \A k \in Keys : fs'[k] # fs[k] =>
                    /\ pc[w] = "fs_rm"
                    /\ k = stream[w].content[pos[w] + 1]
                    /\ fs'[k] = Absent
             /\ dirs' \subseteq dirs
             /\ \A d \in dirs \ dirs' : d # <<>> /\ Children(d) = {}]_vars

\* the cleanup after the unlink of d/e/y has removed d/e and is about to try d,
\* where a put of d/x that started after the unlink has completed
C39_Witness ==
    /\ pc["t1"] = "fs_rmdir"
    /\ stream["t1"].content[pos["t1"]] = "d/e/y"
    /\ before["t1"].present
    /\ <<"d", "/", "e">> \notin dirs
    /\ DirToRemove("t1") = <<"d">>
    /\ op["t2"] = "fs_put_object" /\ key["t2"] = "d/x" /\ pc["t2"] = "done"
    /\ exc["t2"] = "none"
    /\ ~before["t2"].present
    /\ fs["d/x"] = File(stream["t2"].content)
    /\ Len(stream["t2"].content) > 0

\* C40: FSBucket and MemoryBucket are interchangeable: from stores that hold
\* the same objects, the same call with the same valid arguments (put_object,
\* get_object, exists, get_size, list_objects, shallow_list_objects,
\* remove_objects) returns the same result on both, listings taken as sets, or
\* raises the same error on both.
C40_Interchangeable ==
    (/\ pc["t1"] = "done" /\ pc["t2"] = "done"
     /\ ~(/\ op["t1"] \in {"fs_list_objects", "fs_shallow_list_objects"}
          /\ "\n" \in Range(stream["t1"].content)))
        => /\ exc["t1"] = exc["t2"]
           /\ result["t1"] = result["t2"]

====
